---- MODULE Spec2Model ----
(***************************************************************************)
(* A model of auto_docx's execution and output-capture core:               *)
(*   ScriptExecutor.execute / _execute_notebook_as_script /                *)
(*   _execute_script_interactive (with its stream_reader thread) /         *)
(*   _parse_output_stream / _copy_images_to_persistent   (executor.py)     *)
(*   and the child process started from runner.py.                         *)
(*                                                                         *)
(* A Python str is a sequence of one-character strings; a few file-name    *)
(* pieces that never interact with the marker protocol ("mpl_", ".png",    *)
(* "img_") are kept as one element.  The only line break of the alphabet   *)
(* is "\n" and the only other white space is " ".                          *)
(***************************************************************************)
EXTENDS Integers, Sequences, FiniteSets, TLC

VARIABLES
    pc,              \* position of the main thread inside execute()
    suffix,          \* script_path.suffix.lower(): ".py" or ".ipynb"
    child,           \* the child process: "none", "running", "exited", "killed"
    exitCode,        \* exit status of a child that exited by itself
    returncode,      \* process.returncode (None until wait()/poll() reaps the child)
    pipe,            \* characters written by the child and not yet read
    written,         \* history: every character the child wrote to the pipe
    nWrites,         \* number of writes of the child so far
    counter,         \* runner.py's image counter (counter[0])
    fs,              \* regular files that exist (paths)
    rpc,             \* reader thread: "none", "run", "done"
    buffer,          \* stream_reader's pending-text buffer
    hiding_markdown, \* stream_reader's suppression flag
    out_queue,       \* the capture queue
    terminal,        \* everything the reader wrote to sys.stdout
    full_output,     \* the drained capture
    parsed,          \* what _parse_output_stream did: [exc, items] (None before)
    final_items,     \* what _copy_images_to_persistent returned (None before)
    timedOut,        \* history: wait() raised TimeoutExpired
    result,          \* what execute() returned (None before)
    exists,          \* script_path.exists()
    caller,          \* who calls execute(): the CLI's main() or a library caller
    mainrc,          \* what main() returned (None before)
    cells,           \* nb.cells of a notebook (empty for a script)
    script,          \* converted_lines written to temp_nb_exec.py (None before)
    figs,            \* plt.get_fignums() in the child: per open figure its creating cell
    saved,           \* history: per file the shim saved, the cell that created the figure
    reparsed,        \* what a second _parse_output_stream call returned (None before)
    daemon,          \* a process the script started: "none", "holds" (the pipe's
                     \* write end, which it inherited), "gone"
    shim             \* where the child is inside the shim's hooks: [loop, i, pending]

vars == <<pc, suffix, child, exitCode, returncode, pipe, written, nWrites, counter,
          fs, rpc, buffer, hiding_markdown, out_queue, terminal, full_output,
          parsed, final_items, timedOut, result, exists, caller, mainrc, cells,
          script, figs, saved, reparsed, daemon, shim>>

\* the call's input and caller, the notebook's conversion, the child's figures
callVars == <<exists, caller, mainrc, cells>>
figVars == <<figs, saved>>

----------------------------------------------------------------------------
(* Bounds of the model *)

\* writes (print calls, shim announcements) one child makes
MaxWrites == 3
\* characters the pipe holds before a writer blocks
PipeCap == 30
\* lines of a capture handed to the parser on its own
MaxLines == 4

----------------------------------------------------------------------------
(* Protocol markers *)

IMAGE_MARKER_PREFIX ==
    <<"_","_","A","U","T","O","_","D","O","C","X","_","I","M","A","G","E","_","_">>

MD_START_MARKER ==
    <<"_","_","A","U","T","O","_","D","O","C","X","_","M","D","_","S","T","A","R","T","_","_">>

MD_END_MARKER ==
    <<"_","_","A","U","T","O","_","D","O","C","X","_","M","D","_","E","N","D","_","_">>

\* markers = [MD_START_MARKER, MD_END_MARKER, IMAGE_MARKER_PREFIX]
markers == {MD_START_MARKER, MD_END_MARKER, IMAGE_MARKER_PREFIX}

\* f"{IMAGE_MARKER_PREFIX}:"
ImageSep == IMAGE_MARKER_PREFIX \o <<":">>

----------------------------------------------------------------------------
(* Python str operations *)

NL == "\n"

IsSpace(c) == c \in {" ", NL}

\* m.startswith(b)
StartsWith(m, b) == Len(b) <= Len(m) /\ SubSeq(m, 1, Len(b)) = b

MatchAt(s, m, i) == i >= 1 /\ i + Len(m) - 1 <= Len(s) /\ SubSeq(s, i, i + Len(m) - 1) = m

\* m in s
Contains(s, m) == \E i \in 1..(Len(s) - Len(m) + 1) : MatchAt(s, m, i)

\* s.find(m) + 1  (0 when m does not occur)
Find(s, m) ==
    IF Contains(s, m)
    THEN CHOOSE i \in 1..(Len(s) - Len(m) + 1) :
            MatchAt(s, m, i) /\ \A j \in 1..(i - 1) : ~MatchAt(s, m, j)
    ELSE 0

\* s.split(sep): the pieces between non-overlapping occurrences, left to right
RECURSIVE Split(_, _)
Split(s, sep) ==
    LET i == Find(s, sep)
    IN IF i = 0 THEN <<s>>
       ELSE <<SubSeq(s, 1, i - 1)>> \o Split(SubSeq(s, i + Len(sep), Len(s)), sep)

\* s.strip()
Strip(s) ==
    LET keep == {i \in 1..Len(s) : ~IsSpace(s[i])}
    IN IF keep = {} THEN <<>>
       ELSE LET lo == CHOOSE i \in keep : \A j \in keep : i <= j
                hi == CHOOSE i \in keep : \A j \in keep : j <= i
            IN SubSeq(s, lo, hi)

\* s.splitlines(): lines without their line break; no empty last line
RECURSIVE SplitLines(_)
SplitLines(s) ==
    IF s = <<>> THEN <<>>
    ELSE LET i == Find(s, <<NL>>)
         IN IF i = 0 THEN <<s>>
            ELSE <<SubSeq(s, 1, i - 1)>> \o SplitLines(SubSeq(s, i + 1, Len(s)))

\* "\n".join(lines)
RECURSIVE JoinLines(_)
JoinLines(lines) ==
    IF lines = <<>> THEN <<>>
    ELSE IF Len(lines) = 1 THEN lines[1]
    ELSE lines[1] \o <<NL>> \o JoinLines(Tail(lines))

\* sep.join(lines)
RECURSIVE JoinWith(_, _)
JoinWith(lines, sep) ==
    IF lines = <<>> THEN <<>>
    ELSE IF Len(lines) = 1 THEN lines[1]
    ELSE lines[1] \o sep \o JoinWith(Tail(lines), sep)

\* the text of the k-th line of a capture, or of the k-th cell of a notebook: one
\* letter each, so that the line or cell a piece of an item comes from can be read
\* off the item
Letter(k) == <<"a", "b", "c", "d", "e", "f", "g", "h">>[k]

Letters == {Letter(k) : k \in 1..8}

\* the line or cell Letter(k) stands for
LetterLine(c) == CHOOSE k \in 1..8 : Letter(k) = c

----------------------------------------------------------------------------
(* Paths *)

\* script_path of the call: the file "main" with the call's suffix
ScriptPath(sfx) == <<"/", "main", sfx>>

\* temp_script_path = Path(tmpdir) / "temp_nb_exec.py"
TempScriptPath == <<"/", "temp_nb_exec", ".py">>

\* the run's scratch images directory (temp_dir / "images")
ScratchDir == <<"/", "s">>

\* os.path.isabs(p)
IsAbs(p) == p # <<>> /\ p[1] = "/"

\* str(images_dir / image_path) for a relative image_path: no alphabet character
\* forms ".", ".." or a doubled or trailing "/", and an empty path joins to the
\* directory itself
PathJoin(dir, p) == IF p = <<>> THEN dir ELSE dir \o <<"/">> \o p

\* Path(p).name
PathName(p) ==
    LET slashes == {i \in 1..Len(p) : p[i] = "/"}
    IN IF slashes = {} THEN p
       ELSE SubSeq(p, (CHOOSE i \in slashes : \A j \in slashes : j <= i) + 1, Len(p))

\* Path(p).suffix; ".png" stands for the dot and the extension after it
PathSuffix(p) ==
    LET n == PathName(p)
        dots == {i \in 2..Len(n) : n[i] \in {".png"}}
    IN IF dots = {} THEN <<>>
       ELSE SubSeq(n, CHOOSE i \in dots : \A j \in dots : j <= i, Len(n))

\* f"{n:04d}"
Digit(d) == <<"0","1","2","3","4","5","6","7","8","9">>[d + 1]

RECURSIVE Decimal(_)
Decimal(n) == IF n < 10 THEN <<Digit(n)>> ELSE Append(Decimal(n \div 10), Digit(n % 10))

RECURSIVE ZeroPad(_, _)
ZeroPad(s, w) == IF Len(s) >= w THEN s ELSE ZeroPad(<<"0">> \o s, w)

\* Fmt04d with f"{n}" in place of f"{n:04d}"
Fmt04d_Unpadded(n) == Decimal(n)

Fmt04d(n) == ZeroPad(Decimal(n), 4)

----------------------------------------------------------------------------
(* OutputItem and _parse_output_stream *)

OutputItem(kind, content) == [kind |-> kind, content |-> content]

\* FlushBuffer that makes the item of the last line of the buffer alone
FlushBuffer_LastLine(items, buf, kind) ==
    IF buf # <<>> THEN Append(items, OutputItem(kind, buf[Len(buf)])) ELSE items

\* if buffer: items.append(OutputItem(kind=..., content="\n".join(buffer)))
FlushBuffer(items, buf, kind) ==
    IF buf # <<>> THEN Append(items, OutputItem(kind, JoinLines(buf))) ELSE items

\* the parser's loop state before the first line
ParseStart == [items |-> <<>>, buffer |-> <<>>, state |-> "NORMAL", exc |-> "none"]

\* OnMdStart without the flush of the pending text
OnMdStart_NoFlush(st) ==
    [st EXCEPT !.state = "IN_MARKDOWN"]

\* the body of "if MD_START_MARKER in line"
OnMdStart(st) ==
    [st EXCEPT !.items = FlushBuffer(st.items, st.buffer, "text"),
               !.buffer = <<>>,
               !.state = "IN_MARKDOWN"]

\* the body of "if MD_END_MARKER in line"
OnMdEnd(st) ==
    [st EXCEPT !.items = FlushBuffer(st.items, st.buffer, "markdown"),
               !.buffer = <<>>,
               !.state = "NORMAL"]

\* OnImage with the image item appended before the pending text is flushed
OnImage_ImageBeforeText(st, line, images_dir) ==
    LET parts == Split(line, ImageSep)
        buf1 == IF Strip(parts[1]) # <<>> THEN Append(st.buffer, parts[1]) ELSE st.buffer
    IN IF Len(parts) < 2
       THEN [st EXCEPT !.items = FlushBuffer(st.items, buf1, "text"),
                       !.buffer = <<>>, !.exc = "IndexError"]
       ELSE LET stripped == Strip(parts[2])
                image_path == IF IsAbs(stripped) THEN stripped
                              ELSE PathJoin(images_dir, stripped)
            IN [st EXCEPT !.items = FlushBuffer(Append(st.items,
                                                       OutputItem("image", image_path)),
                                                buf1, "text"),
                          !.buffer = <<>>]

\* the body of 'if state == "NORMAL" and IMAGE_MARKER_PREFIX in line'
OnImage(st, line, images_dir) ==
    LET parts == Split(line, ImageSep)
        buf1 == IF Strip(parts[1]) # <<>> THEN Append(st.buffer, parts[1]) ELSE st.buffer
        items1 == FlushBuffer(st.items, buf1, "text")
    IN IF Len(parts) < 2
       THEN \* parts[1] raises IndexError after the text was flushed
            [st EXCEPT !.items = items1, !.buffer = <<>>, !.exc = "IndexError"]
       ELSE LET stripped == Strip(parts[2])
                image_path == IF IsAbs(stripped) THEN stripped
                              ELSE PathJoin(images_dir, stripped)
            IN [st EXCEPT !.items = Append(items1, OutputItem("image", image_path)),
                          !.buffer = <<>>]

\* ParseLine that honours an image marker in IN_MARKDOWN too
ParseLine_ImageAnyState(st, line, images_dir) ==
    IF Contains(line, MD_START_MARKER) THEN OnMdStart(st)
    ELSE IF Contains(line, MD_END_MARKER) THEN OnMdEnd(st)
    ELSE IF Contains(line, IMAGE_MARKER_PREFIX)
         THEN OnImage(st, line, images_dir)
    ELSE [st EXCEPT !.buffer = Append(st.buffer, line)]

\* one iteration of "for line in lines"
ParseLine(st, line, images_dir) ==
    IF Contains(line, MD_START_MARKER) THEN OnMdStart(st)
    ELSE IF Contains(line, MD_END_MARKER) THEN OnMdEnd(st)
    ELSE IF st.state = "NORMAL" /\ Contains(line, IMAGE_MARKER_PREFIX)
         THEN OnImage(st, line, images_dir)
    ELSE [st EXCEPT !.buffer = Append(st.buffer, line)]

\* the loop over lines[i..]; an exception ends it
RECURSIVE ParseLoop(_, _, _, _)
ParseLoop(st, lines, i, images_dir) ==
    IF i > Len(lines) \/ st.exc # "none" THEN st
    ELSE ParseLoop(ParseLine(st, lines[i], images_dir), lines, i + 1, images_dir)

\* ParseFinish that tags what is left as text, whatever the state
ParseFinish_AlwaysText(st) ==
    IF st.exc # "none" THEN st
    ELSE [st EXCEPT !.items = FlushBuffer(st.items, st.buffer, "text"),
                    !.buffer = <<>>]

\* the flush after the loop
ParseFinish(st) ==
    IF st.exc # "none" THEN st
    ELSE [st EXCEPT !.items = FlushBuffer(st.items, st.buffer,
                                IF st.state = "IN_MARKDOWN" THEN "markdown" ELSE "text"),
                    !.buffer = <<>>]

\* _parse_output_stream(stdout, images_dir): [exc, items]; exc = "none" when it returns
parse_output_stream(stdout, images_dir) ==
    LET st == ParseFinish(ParseLoop(ParseStart, SplitLines(stdout), 1, images_dir))
    IN [exc |-> st.exc, items |-> IF st.exc = "none" THEN st.items ELSE <<>>]

----------------------------------------------------------------------------
(* Python values *)

\* None
None == [none |-> TRUE]

\* an int (kept apart from None, which is no int)
PyInt(n) == [int |-> n]

\* a value of an Optional field that is not None
Some(v) == [some |-> v]

\* isinstance(v, int)
\* the child is in none of the shim's hooks
ShimIdle == [loop |-> "none", i |-> 0, pending |-> None]

IsPyInt(v) == "int" \in DOMAIN v

----------------------------------------------------------------------------
(* The file system and _copy_images_to_persistent *)

\* script_path.parent / f".{script_path.stem}_images" of a .py run
PersistDir == <<"/", "d">>

\* the same directory next to the converted notebook script, inside tmpdir
TmpPersistDir == <<"/", "t">>

\* notebook_path.parent / f".{notebook_path.stem}_images"
NotebookPersistDir == <<"/", "n">>

\* directories a path of the alphabet can name
IsDir(p) == p = ScratchDir

\* Path(p).exists()
PathExists(files, p) == p \in files \/ IsDir(p)

\* the loop of _copy_images_to_persistent from item i on:
\* [exc, items, img_counter, files]
RECURSIVE CopyLoop(_, _, _, _)
CopyLoop(st, items, i, persistent_dir) ==
    IF i > Len(items) \/ st.exc # "none" THEN st
    ELSE LET item == items[i]
             n == st.img_counter + 1
             dst == persistent_dir \o <<"/", "img_">> \o Fmt04d(n) \o PathSuffix(item.content)
         IN IF item.kind = "image" /\ PathExists(st.files, item.content)
            THEN IF IsDir(item.content)
                 THEN \* shutil.copy2 of a directory raises
                      [st EXCEPT !.img_counter = n, !.exc = "IsADirectoryError"]
                 ELSE CopyLoop([st EXCEPT !.img_counter = n,
                                          !.files = st.files \cup {dst},
                                          !.items = Append(st.items, OutputItem("image", dst))],
                               items, i + 1, persistent_dir)
            ELSE CopyLoop([st EXCEPT !.items = Append(st.items, item)],
                          items, i + 1, persistent_dir)

\* _copy_images_to_persistent(items, persistent_dir) on the files that exist
copy_images_to_persistent(items, persistent_dir, files) ==
    CopyLoop([exc |-> "none", items |-> <<>>, img_counter |-> 0, files |-> files],
             items, 1, persistent_dir)

\* shutil.rmtree(dir), and the removal of a temporary directory: dir and all it holds
RmTree(files, dir) == {p \in files : ~StartsWith(p, dir \o <<"/">>)}

\* temp_dir_obj.cleanup(): the scratch directory and all it holds are removed
CleanupScratch(files) == RmTree(files, ScratchDir)

\* the final_items loop of _execute_notebook_as_script from item i on: [items, files]
RECURSIVE NotebookCopyLoop(_, _, _)
NotebookCopyLoop(st, items, i) ==
    IF i > Len(items) THEN st
    ELSE LET item == items[i]
             dst == NotebookPersistDir \o <<"/">> \o PathName(item.content)
         IN IF item.kind = "image"
            THEN IF PathExists(st.files, item.content)
                 THEN NotebookCopyLoop([items |-> Append(st.items, OutputItem("image", dst)),
                                        files |-> st.files \cup {dst}], items, i + 1)
                 ELSE NotebookCopyLoop(st, items, i + 1)
            ELSE NotebookCopyLoop([st EXCEPT !.items = Append(st.items, item)], items, i + 1)

----------------------------------------------------------------------------
(* Sources: the script's text, and the conversion of a notebook's cells *)

\* a cell of nb.cells
Cell(cell_type, source) == [cell_type |-> cell_type, source |-> source]

\* script_path.read_text() of a .py file
ScriptSource == <<"pass">>

\* script_path.read_text() of a notebook: the JSON document with every cell in it
RECURSIVE RawCells(_)
RawCells(cs) ==
    IF cs = <<>> THEN <<>>
    ELSE <<"{", Head(cs).cell_type, ":">> \o Head(cs).source \o <<"}">> \o RawCells(Tail(cs))

RawNotebook(cs) == <<"{cells:[">> \o RawCells(cs) \o <<"]}">>

\* base64, character by character: the characters a text can be made of, and the
\* code of each; the codes hold no line break, quote or underscore
B64Source ==
    <<"a", "b", "c", "d", "e", "f", "g", "h", "\n", "_", ":", " ", "A", "C", "D", "E",
      "G", "I", "M", "N", "O", "R", "S", "T", "U", "X">>

B64Code ==
    <<"A", "B", "C", "D", "E", "F", "G", "H", "Cg", "Xw", "Og", "IA", "QQ", "Qw", "RA",
      "RQ", "Rw", "SQ", "TQ", "Tg", "Tw", "Ug", "Uw", "VA", "VQ", "WA">>

B64Char(c) == B64Code[CHOOSE i \in 1..Len(B64Source) : B64Source[i] = c]

\* base64.b64encode(md_content.encode('utf-8')).decode('utf-8')
B64Encode(text) == [i \in 1..Len(text) |-> B64Char(text[i])]

\* B64Decode that takes every code for the code of the character next in the alphabet
B64Decode_OffByOne(b64) ==
    [i \in 1..Len(b64) |->
        B64Source[((CHOOSE k \in 1..Len(B64Code) : B64Code[k] = b64[i]) % Len(B64Source)) + 1]]

\* base64.b64decode(b64_content).decode('utf-8')
B64Decode(b64) ==
    [i \in 1..Len(b64) |-> B64Source[CHOOSE k \in 1..Len(B64Code) : B64Code[k] = b64[i]]]

\* injector_code of a markdown cell
InjectorCode(md_content) ==
    <<"print('">> \o MD_START_MARKER \o <<"')", NL,
      "print(base64.b64decode('">> \o B64Encode(md_content) \o <<"').decode('utf-8'))", NL,
      "print('">> \o MD_END_MARKER \o <<"')", NL>>

\* the loop over nb.cells: [converted_lines, source_code_display]
RECURSIVE ConvertLoop(_, _)
ConvertLoop(st, cs) ==
    IF cs = <<>> THEN st
    ELSE LET cell == Head(cs)
         IN IF cell.cell_type = "code"
            THEN ConvertLoop([converted_lines |->
                                 Append(st.converted_lines,
                                        <<"# %% [Code]", NL>> \o cell.source \o <<NL>>),
                              source_code_display |->
                                 Append(st.source_code_display, cell.source)],
                             Tail(cs))
            ELSE IF cell.cell_type = "markdown"
            THEN ConvertLoop([st EXCEPT !.converted_lines =
                                 Append(st.converted_lines,
                                        <<"# %% [Markdown]", NL>> \o InjectorCode(cell.source))],
                             Tail(cs))
            ELSE ConvertLoop(st, Tail(cs))

\* the conversion of the cells: [converted_lines, source_code_display]
ConvertCells(cs) ==
    ConvertLoop([converted_lines |-> << <<"import base64">>, <<>> >>,
                 source_code_display |-> <<>>], cs)

\* converted_source = "\n".join(converted_lines)
converted_source(converted_lines) == JoinLines(converted_lines)

\* clean_source_code = "\n\n".join(source_code_display)
clean_source_code(cs) == JoinWith(ConvertCells(cs).source_code_display, <<NL, NL>>)

----------------------------------------------------------------------------
(* ExecutionResult; the Optional fields output_items and error_message hold None
   or Some(value) *)

ExecutionResult(stdout, stderr, return_code, script_path, source_code, success, items, error_message) ==
    [stdout |-> stdout, stderr |-> stderr, return_code |-> return_code,
     script_path |-> script_path, source_code |-> source_code,
     success |-> success, output_items |-> items, error_message |-> error_message]

\* ExecutionResult.has_errors
has_errors(r) == r.stderr # <<>> \/ r.return_code # PyInt(0)

\* the result built by execute()'s "except Exception as e"
ExceptionResult(e, script_path, source_code) ==
    ExecutionResult(<<>>, <<e>>, PyInt(-1), script_path, source_code, FALSE, None,
                    Some(<<"Execution Failed: ", e>>))

\* NotebookFailure with the return code of execute()'s handler
NotebookFailure_AsException(e, notebook_path) ==
    ExecutionResult(<<>>, <<e>>, PyInt(-1), notebook_path, <<>>, FALSE, None,
                    Some(<<"Failed to parse notebook: ", e>>))

\* the result built when converting the notebook raised
NotebookFailure(e, notebook_path) ==
    ExecutionResult(<<>>, <<e>>, PyInt(1), notebook_path, <<>>, FALSE, None,
                    Some(<<"Failed to parse notebook: ", e>>))

\* InteractiveResult with "success = not process.returncode"
InteractiveResult_NotReturncode(stdout, rc, items, script_path, source_code) ==
    ExecutionResult(stdout, <<>>, rc, script_path, source_code,
                    rc = PyInt(0) \/ rc = None, Some(items), None)

\* the result built at the end of _execute_script_interactive
InteractiveResult(stdout, rc, items, script_path, source_code) ==
    ExecutionResult(stdout, <<>>, rc, script_path, source_code, rc = PyInt(0),
                    Some(items), None)

----------------------------------------------------------------------------
(* stream_reader: what one iteration does with the character it read *)

\* stream_reader_step with sys.stdout.write(char) in place of sys.stdout.write(buffer)
stream_reader_step_WriteChar(buf, hiding, char) ==
    LET b == Append(buf, char)
    IN IF hiding
       THEN IF Contains(b, MD_END_MARKER)
            THEN [buffer |-> <<>>, hiding_markdown |-> FALSE, out |-> <<>>]
            ELSE IF char = NL
                 THEN [buffer |-> <<>>, hiding_markdown |-> TRUE, out |-> <<>>]
                 ELSE [buffer |-> b, hiding_markdown |-> TRUE, out |-> <<>>]
       ELSE IF Contains(b, MD_START_MARKER)
            THEN [buffer |-> <<>>, hiding_markdown |-> TRUE, out |-> <<>>]
       ELSE IF Contains(b, IMAGE_MARKER_PREFIX)
            THEN [buffer |-> IF char = NL THEN <<>> ELSE b,
                  hiding_markdown |-> FALSE, out |-> <<>>]
       ELSE IF \E m \in markers : StartsWith(m, b)
            THEN [buffer |-> b, hiding_markdown |-> FALSE, out |-> <<>>]
       ELSE [buffer |-> <<>>, hiding_markdown |-> FALSE, out |-> <<char>>]

\* stream_reader_step that echoes a hidden line when its line break is read
stream_reader_step_EchoHidden(buf, hiding, char) ==
    LET b == Append(buf, char)
    IN IF hiding
       THEN IF Contains(b, MD_END_MARKER)
            THEN [buffer |-> <<>>, hiding_markdown |-> FALSE, out |-> <<>>]
            ELSE IF char = NL
                 THEN [buffer |-> <<>>, hiding_markdown |-> TRUE, out |-> b]
                 ELSE [buffer |-> b, hiding_markdown |-> TRUE, out |-> <<>>]
       ELSE IF Contains(b, MD_START_MARKER)
            THEN [buffer |-> <<>>, hiding_markdown |-> TRUE, out |-> <<>>]
       ELSE IF Contains(b, IMAGE_MARKER_PREFIX)
            THEN [buffer |-> IF char = NL THEN <<>> ELSE b,
                  hiding_markdown |-> FALSE, out |-> <<>>]
       ELSE IF \E m \in markers : StartsWith(m, b)
            THEN [buffer |-> b, hiding_markdown |-> FALSE, out |-> <<>>]
       ELSE [buffer |-> <<>>, hiding_markdown |-> FALSE, out |-> b]

\* stream_reader_step that writes ordinary output only when a line break is read
stream_reader_step_LineBuffered(buf, hiding, char) ==
    LET b == Append(buf, char)
    IN IF hiding
       THEN IF Contains(b, MD_END_MARKER)
            THEN [buffer |-> <<>>, hiding_markdown |-> FALSE, out |-> <<>>]
            ELSE IF char = NL
                 THEN [buffer |-> <<>>, hiding_markdown |-> TRUE, out |-> <<>>]
                 ELSE [buffer |-> b, hiding_markdown |-> TRUE, out |-> <<>>]
       ELSE IF Contains(b, MD_START_MARKER)
            THEN [buffer |-> <<>>, hiding_markdown |-> TRUE, out |-> <<>>]
       ELSE IF Contains(b, IMAGE_MARKER_PREFIX)
            THEN [buffer |-> IF char = NL THEN <<>> ELSE b,
                  hiding_markdown |-> FALSE, out |-> <<>>]
       ELSE IF (\E m \in markers : StartsWith(m, b)) \/ char # NL
            THEN [buffer |-> b, hiding_markdown |-> FALSE, out |-> <<>>]
       ELSE [buffer |-> <<>>, hiding_markdown |-> FALSE, out |-> b]

\* stream_reader_step that keeps the buffer after sys.stdout.write(buffer)
stream_reader_step_KeepBuffer(buf, hiding, char) ==
    LET b == Append(buf, char)
    IN IF hiding
       THEN IF Contains(b, MD_END_MARKER)
            THEN [buffer |-> <<>>, hiding_markdown |-> FALSE, out |-> <<>>]
            ELSE IF char = NL
                 THEN [buffer |-> <<>>, hiding_markdown |-> TRUE, out |-> <<>>]
                 ELSE [buffer |-> b, hiding_markdown |-> TRUE, out |-> <<>>]
       ELSE IF Contains(b, MD_START_MARKER)
            THEN [buffer |-> <<>>, hiding_markdown |-> TRUE, out |-> <<>>]
       ELSE IF Contains(b, IMAGE_MARKER_PREFIX)
            THEN [buffer |-> IF char = NL THEN <<>> ELSE b,
                  hiding_markdown |-> FALSE, out |-> <<>>]
       ELSE IF \E m \in markers : StartsWith(m, b)
            THEN [buffer |-> b, hiding_markdown |-> FALSE, out |-> <<>>]
       ELSE [buffer |-> IF char = NL THEN <<>> ELSE b, hiding_markdown |-> FALSE, out |-> b]

\* stream_reader_step that keeps an image marker line in the buffer at its line break
stream_reader_step_KeepImageLine(buf, hiding, char) ==
    LET b == Append(buf, char)
    IN IF hiding
       THEN IF Contains(b, MD_END_MARKER)
            THEN [buffer |-> <<>>, hiding_markdown |-> FALSE, out |-> <<>>]
            ELSE IF char = NL
                 THEN [buffer |-> <<>>, hiding_markdown |-> TRUE, out |-> <<>>]
                 ELSE [buffer |-> b, hiding_markdown |-> TRUE, out |-> <<>>]
       ELSE IF Contains(b, MD_START_MARKER)
            THEN [buffer |-> <<>>, hiding_markdown |-> TRUE, out |-> <<>>]
       ELSE IF Contains(b, IMAGE_MARKER_PREFIX)
            THEN [buffer |-> b, hiding_markdown |-> FALSE, out |-> <<>>]
       ELSE IF \E m \in markers : StartsWith(m, b)
            THEN [buffer |-> b, hiding_markdown |-> FALSE, out |-> <<>>]
       ELSE [buffer |-> <<>>, hiding_markdown |-> FALSE, out |-> b]

\* [buffer, hiding_markdown, out]: out is what the iteration writes to sys.stdout
stream_reader_step(buf, hiding, char) ==
    LET b == Append(buf, char)
    IN IF hiding
       THEN IF Contains(b, MD_END_MARKER)
            THEN [buffer |-> <<>>, hiding_markdown |-> FALSE, out |-> <<>>]
            ELSE IF char = NL
                 THEN [buffer |-> <<>>, hiding_markdown |-> TRUE, out |-> <<>>]
                 ELSE [buffer |-> b, hiding_markdown |-> TRUE, out |-> <<>>]
       ELSE IF Contains(b, MD_START_MARKER)
            THEN [buffer |-> <<>>, hiding_markdown |-> TRUE, out |-> <<>>]
       ELSE IF Contains(b, IMAGE_MARKER_PREFIX)
            THEN [buffer |-> IF char = NL THEN <<>> ELSE b,
                  hiding_markdown |-> FALSE, out |-> <<>>]
       ELSE IF \E m \in markers : StartsWith(m, b)
            THEN [buffer |-> b, hiding_markdown |-> FALSE, out |-> <<>>]
       ELSE [buffer |-> <<>>, hiding_markdown |-> FALSE, out |-> b]

----------------------------------------------------------------------------
(* The child process: runner.py running the script *)

\* "__AUTO_DOCX_", the longest prefix the three sentinels share
CommonPrefix == SubSeq(IMAGE_MARKER_PREFIX, 1, 12)

\* what one write of the script can put on the merged pipe
Chunks == { <<"a">>, <<NL>>, <<"_">>, <<":">>, CommonPrefix,
            IMAGE_MARKER_PREFIX, MD_START_MARKER, MD_END_MARKER }

\* exit statuses of a child that exits by itself
ExitCodes == {0, 2}

\* images_dir / f"mpl_{counter[0]:04d}.png"
MplPath(n) == ScratchDir \o <<"/", "mpl_">> \o Fmt04d(n) \o <<".png">>

\* images_dir / f"cv2_{counter[0]:04d}.png"
Cv2Path(n) == ScratchDir \o <<"/", "cv2_">> \o Fmt04d(n) \o <<".png">>

\* f"{IMAGE_MARKER_PREFIX}:{image_path}" and print's line break
ImageMarkerLine(path) == IMAGE_MARKER_PREFIX \o <<":">> \o path \o <<NL>>

\* the script writes c to stdout/stderr (one pipe): it blocks while the pipe is full
ChildWrite(c) ==
    /\ child = "running"
    /\ nWrites < MaxWrites
    /\ Len(pipe) + Len(c) <= PipeCap
    /\ pipe' = pipe \o c
    /\ written' = written \o c
    /\ nWrites' = nWrites + 1
    /\ UNCHANGED <<daemon, shim, callVars, script, figVars, reparsed,
                   pc, suffix, child, exitCode, returncode, counter, fs, rpc, buffer,
                   hiding_markdown, out_queue, terminal, full_output, parsed,
                   final_items, timedOut, result>>

\* save_figures for one figure: count, save the file, print its marker
ShimSaveFigure ==
    /\ child = "running"
    /\ nWrites < MaxWrites
    /\ Len(pipe) + Len(ImageMarkerLine(MplPath(counter + 1))) <= PipeCap
    /\ counter' = counter + 1
    /\ fs' = fs \cup {MplPath(counter + 1)}
    /\ pipe' = pipe \o ImageMarkerLine(MplPath(counter + 1))
    /\ written' = written \o ImageMarkerLine(MplPath(counter + 1))
    /\ nWrites' = nWrites + 1
    /\ UNCHANGED <<daemon, shim, callVars, script, figVars, reparsed,
                   pc, suffix, child, exitCode, returncode, rpc, buffer,
                   hiding_markdown, out_queue, terminal, full_output, parsed,
                   final_items, timedOut, result>>

\* a byte that is not valid UTF-8
InvalidByte == "\\xff"

\* the script writes an undecodable byte (sys.stdout.buffer.write(b"\xff"))
ChildWriteInvalid ==
    /\ child = "running"
    /\ nWrites < MaxWrites
    /\ Len(pipe) + 1 <= PipeCap
    /\ pipe' = Append(pipe, InvalidByte)
    /\ written' = Append(written, InvalidByte)
    /\ nWrites' = nWrites + 1
    /\ UNCHANGED <<daemon, shim, callVars, script, figVars, reparsed,
                   pc, suffix, child, exitCode, returncode, counter, fs, rpc, buffer,
                   hiding_markdown, out_queue, terminal, full_output, parsed,
                   final_items, timedOut, result>>

\* the relative image path a script announces by itself
RelativeImage == <<"f", ".png">>

\* the script prints an image marker with a relative path, after saving the image
\* into the scratch images directory (sys.argv[2] of the runner) or without saving it
ScriptPrintMarker(save) ==
    /\ child = "running"
    /\ nWrites < MaxWrites
    /\ Len(pipe) + Len(ImageMarkerLine(RelativeImage)) <= PipeCap
    /\ fs' = IF save THEN fs \cup {PathJoin(ScratchDir, RelativeImage)} ELSE fs
    /\ pipe' = pipe \o ImageMarkerLine(RelativeImage)
    /\ written' = written \o ImageMarkerLine(RelativeImage)
    /\ nWrites' = nWrites + 1
    /\ UNCHANGED <<daemon, shim, callVars, script, figVars, reparsed,
                   pc, suffix, child, exitCode, returncode, counter, rpc, buffer,
                   hiding_markdown, out_queue, terminal, full_output, parsed,
                   final_items, timedOut, result>>

\* sys.exit(main()): the child ends by itself and closes its end of the pipe
ChildExit(code) ==
    /\ child = "running"
    /\ child' = "exited"
    /\ exitCode' = code
    /\ UNCHANGED <<daemon, shim, callVars, script, figVars, reparsed,
                   pc, suffix, returncode, pipe, written, nWrites, counter, fs, rpc,
                   buffer, hiding_markdown, out_queue, terminal, full_output, parsed,
                   final_items, timedOut, result>>

----------------------------------------------------------------------------
(* The reader thread *)

\* one iteration of "while True" with a character to read
ReaderStep ==
    /\ rpc = "run"
    /\ pipe # <<>>
    /\ Head(pipe) # InvalidByte
    /\ LET char == Head(pipe)
           r == stream_reader_step(buffer, hiding_markdown, char)
       IN /\ pipe' = Tail(pipe)
          /\ out_queue' = Append(out_queue, char)
          /\ buffer' = r.buffer
          /\ hiding_markdown' = r.hiding_markdown
          /\ terminal' = terminal \o r.out
    /\ UNCHANGED <<daemon, shim, callVars, script, figVars, reparsed,
                   pc, suffix, child, exitCode, returncode, written, nWrites, counter,
                   fs, rpc, full_output, parsed, final_items, timedOut, result>>

\* pipe.read(1) raises UnicodeDecodeError: the text layer decodes what it fetched
\* from the pipe as a whole, so the read fails as soon as or as late as the undecodable
\* byte is among the unread bytes; the exception ends the thread, nothing is read any more
ReaderDecodeError ==
    /\ rpc = "run"
    /\ \E i \in 1..Len(pipe) : pipe[i] = InvalidByte
    /\ rpc' = "dead"
    /\ UNCHANGED <<daemon, shim, callVars, script, figVars, reparsed,
                   pc, suffix, child, exitCode, returncode, pipe, written, nWrites,
                   counter, fs, buffer, hiding_markdown, out_queue, terminal,
                   full_output, parsed, final_items, timedOut, result>>

\* pipe.read(1) returns "": every writer is gone (the child, and any process that
\* inherited its stdout) and the pipe is empty
ReaderEOF ==
    /\ rpc = "run"
    /\ pipe = <<>>
    /\ child \in {"exited", "killed"}
    /\ daemon # "holds"
    /\ rpc' = "done"
    /\ UNCHANGED <<daemon, shim, callVars, script, figVars, reparsed,
                   pc, suffix, child, exitCode, returncode, pipe, written, nWrites,
                   counter, fs, buffer, hiding_markdown, out_queue, terminal,
                   full_output, parsed, final_items, timedOut, result>>

----------------------------------------------------------------------------
(* The main thread: execute() *)

\* a notebook of one markdown cell and one code cell
ExampleNotebook == << Cell("markdown", <<"a">>), Cell("code", <<"pass">>) >>

\* source_code = script_path.read_text(...)
SourceRead == IF suffix = ".ipynb" THEN RawNotebook(cells) ELSE ScriptSource

\* Execute without "if not script_path.exists(): raise FileNotFoundError"
Execute_NoCheck ==
    /\ pc = "execute"
    /\ pc' = IF suffix = ".ipynb" THEN "convert" ELSE "popen"
    /\ UNCHANGED <<daemon, shim, callVars, script, figVars, reparsed,
                   suffix, child, exitCode, returncode, pipe, written, nWrites, counter,
                   fs, rpc, buffer, hiding_markdown, out_queue, terminal, full_output,
                   parsed, final_items, timedOut, result>>

\* execute() up to the dispatch on the suffix; a missing script raises
\* FileNotFoundError to the caller
Execute ==
    /\ pc = "execute"
    /\ pc' = IF ~exists THEN "raised"
             ELSE IF suffix = ".ipynb" THEN "convert" ELSE "popen"
    /\ UNCHANGED <<daemon, shim, callVars, script, figVars, reparsed,
                   suffix, child, exitCode, returncode, pipe, written, nWrites, counter,
                   fs, rpc, buffer, hiding_markdown, out_queue, terminal, full_output,
                   parsed, final_items, timedOut, result>>

\* _execute_notebook_as_script: the notebook is read and converted
ConvertNotebook ==
    /\ pc = "convert"
    /\ script' = Some(ConvertCells(cells).converted_lines)
    /\ pc' = "popen"
    /\ UNCHANGED <<daemon, shim, callVars, figVars, reparsed,
                   suffix, child, exitCode, returncode, pipe, written, nWrites, counter,
                   fs, rpc, buffer, hiding_markdown, out_queue, terminal, full_output,
                   parsed, final_items, timedOut, result>>

\* _execute_notebook_as_script: reading or converting the notebook raises
ConvertFails ==
    /\ pc = "convert"
    /\ result' = NotebookFailure("NotJSONError", ScriptPath(suffix))
    /\ pc' = "done"
    /\ UNCHANGED <<daemon, shim, callVars, script, figVars, reparsed,
                   suffix, child, exitCode, returncode, pipe, written, nWrites, counter,
                   fs, rpc, buffer, hiding_markdown, out_queue, terminal, full_output,
                   parsed, final_items, timedOut>>

\* subprocess.Popen(...) and t_out.start()
Popen ==
    /\ pc = "popen"
    /\ child' = "running"
    /\ rpc' = "run"
    /\ pc' = "wait"
    /\ UNCHANGED <<daemon, shim, callVars, script, figVars, reparsed,
                   suffix, exitCode, returncode, pipe, written, nWrites, counter, fs,
                   buffer, hiding_markdown, out_queue, terminal, full_output, parsed,
                   final_items, timedOut, result>>

\* subprocess.Popen(...) raises (the interpreter cannot be started): the exception
\* reaches execute()'s handler
PopenFails ==
    /\ pc = "popen"
    /\ child' = "failed"
    /\ result' = ExceptionResult("FileNotFoundError", ScriptPath(suffix), SourceRead)
    /\ pc' = "done"
    /\ UNCHANGED <<daemon, shim, callVars, script, figVars, reparsed,
                   suffix, exitCode, returncode, pipe, written, nWrites, counter, fs,
                   rpc, buffer, hiding_markdown, out_queue, terminal, full_output,
                   parsed, final_items, timedOut>>

\* process.wait(timeout=...) returns: the child has exited and is reaped
WaitReturns ==
    /\ pc = "wait"
    /\ child = "exited"
    /\ returncode' = PyInt(exitCode)
    /\ pc' = "join"
    /\ UNCHANGED <<daemon, shim, callVars, script, figVars, reparsed,
                   suffix, child, exitCode, pipe, written, nWrites, counter, fs, rpc,
                   buffer, hiding_markdown, out_queue, terminal, full_output, parsed,
                   final_items, timedOut, result>>

\* process.wait(timeout=...) raises TimeoutExpired: the child is still running
WaitTimeout ==
    /\ pc = "wait"
    /\ child = "running"
    /\ timedOut' = TRUE
    /\ pc' = "kill"
    /\ UNCHANGED <<daemon, shim, callVars, script, figVars, reparsed,
                   suffix, child, exitCode, returncode, pipe, written, nWrites, counter,
                   fs, rpc, buffer, hiding_markdown, out_queue, terminal, full_output,
                   parsed, final_items, result>>

\* process.kill(): send_signal polls first and reaps a child that has exited
\* meanwhile; otherwise SIGKILL is sent and nothing sets process.returncode
Kill ==
    /\ pc = "kill"
    /\ IF child = "exited"
       THEN returncode' = PyInt(exitCode) /\ child' = child
       ELSE returncode' = returncode /\ child' = "killed"
    /\ pc' = "join"
    /\ UNCHANGED <<daemon, shim, callVars, script, figVars, reparsed,
                   suffix, exitCode, pipe, written, nWrites, counter, fs, rpc, buffer,
                   hiding_markdown, out_queue, terminal, full_output, parsed,
                   final_items, timedOut, result>>

\* t_out.join(): the thread has ended, by its break or by an exception
Join ==
    /\ pc = "join"
    /\ rpc \in {"done", "dead"}
    /\ pc' = "drain"
    /\ UNCHANGED <<daemon, shim, callVars, script, figVars, reparsed,
                   suffix, child, exitCode, returncode, pipe, written, nWrites, counter,
                   fs, rpc, buffer, hiding_markdown, out_queue, terminal, full_output,
                   parsed, final_items, timedOut, result>>

\* while not out_queue.empty(): full_output += out_queue.get()
Drain ==
    /\ pc = "drain"
    /\ full_output' = out_queue
    /\ out_queue' = <<>>
    /\ pc' = "parse"
    /\ UNCHANGED <<daemon, shim, callVars, script, figVars, reparsed,
                   suffix, child, exitCode, returncode, pipe, written, nWrites, counter,
                   fs, rpc, buffer, hiding_markdown, terminal, parsed, final_items,
                   timedOut, result>>

\* output_items = self._parse_output_stream(full_output, images_dir); an exception
\* reaches execute()'s handler
Parse ==
    /\ pc = "parse"
    /\ LET r == parse_output_stream(full_output, ScratchDir)
       IN /\ parsed' = r
          /\ IF r.exc # "none"
             THEN /\ result' = ExceptionResult(r.exc, ScriptPath(suffix), SourceRead)
                  /\ pc' = "done"
             ELSE /\ result' = result
                  /\ pc' = "copy"
    /\ UNCHANGED <<daemon, shim, callVars, script, figVars, reparsed,
                   suffix, child, exitCode, returncode, pipe, written, nWrites, counter,
                   fs, rpc, buffer, hiding_markdown, out_queue, terminal, full_output,
                   final_items, timedOut>>

\* the persistent directory of this run
RunPersistDir == IF suffix = ".ipynb" THEN TmpPersistDir ELSE PersistDir

\* final_items = self._copy_images_to_persistent(output_items, persistent_images_dir)
Copy ==
    /\ pc = "copy"
    /\ LET r == copy_images_to_persistent(parsed.items, RunPersistDir, fs)
       IN IF r.exc # "none"
          THEN /\ result' = ExceptionResult(r.exc, ScriptPath(suffix), SourceRead)
               /\ pc' = "done"
               /\ final_items' = final_items
               /\ fs' = IF suffix = ".ipynb" THEN RmTree(r.files, TmpPersistDir)
                         ELSE r.files
          ELSE /\ result' = result
               /\ pc' = "cleanup"
               /\ final_items' = r.items
               /\ fs' = r.files
    /\ UNCHANGED <<daemon, shim, callVars, script, figVars, reparsed,
                   suffix, child, exitCode, returncode, pipe, written, nWrites, counter,
                   rpc, buffer, hiding_markdown, out_queue, terminal, full_output,
                   parsed, timedOut>>

\* the script_path and source_code _execute_script_interactive is called with
RunScriptPath == IF suffix = ".ipynb" THEN TempScriptPath ELSE ScriptPath(suffix)

RunSource == IF suffix = ".ipynb" THEN converted_source(script.some) ELSE SourceRead

\* temp_dir_obj.cleanup() and "return ExecutionResult(...)"; a notebook run goes on
\* in _execute_notebook_as_script
Return ==
    /\ pc = "cleanup"
    /\ fs' = CleanupScratch(fs)
    /\ result' = InteractiveResult(full_output, returncode, final_items,
                                   RunScriptPath, RunSource)
    /\ pc' = IF suffix = ".ipynb" THEN "notebook" ELSE "done"
    /\ UNCHANGED <<daemon, shim, callVars, script, figVars, reparsed,
                   suffix, child, exitCode, returncode, pipe, written, nWrites, counter,
                   rpc, buffer, hiding_markdown, out_queue, terminal, full_output,
                   parsed, final_items, timedOut>>

\* _execute_notebook_as_script after the run: the images are copied next to the
\* notebook, and leaving the "with" block removes tmpdir
NotebookReturn ==
    /\ pc = "notebook"
    /\ LET r == NotebookCopyLoop([items |-> <<>>, files |-> fs], result.output_items.some, 1)
       IN /\ fs' = RmTree(r.files, TmpPersistDir)
          /\ result' = [result EXCEPT !.script_path = ScriptPath(suffix),
                                      !.source_code = clean_source_code(cells),
                                      !.output_items = Some(r.items)]
    /\ pc' = "done"
    /\ UNCHANGED <<daemon, shim, callVars, script, figVars, reparsed,
                   suffix, child, exitCode, returncode, pipe, written, nWrites, counter,
                   rpc, buffer, hiding_markdown, out_queue, terminal, full_output,
                   parsed, final_items, timedOut>>

----------------------------------------------------------------------------
(* The specification of one execute() call *)

Init ==
    /\ pc = "execute"
    /\ suffix \in {".py", ".ipynb"}
    /\ child = "none"
    /\ exitCode = 0
    /\ returncode = None
    /\ pipe = <<>>
    /\ written = <<>>
    /\ nWrites = 0
    /\ counter = 0
    /\ fs = {}
    /\ rpc = "none"
    /\ buffer = <<>>
    /\ hiding_markdown = FALSE
    /\ out_queue = <<>>
    /\ terminal = <<>>
    /\ full_output = <<>>
    /\ parsed = None
    /\ final_items = None
    /\ timedOut = FALSE
    /\ result = None
    /\ exists \in BOOLEAN
    /\ caller = "library"
    /\ mainrc = None
    /\ cells = IF suffix = ".ipynb" THEN ExampleNotebook ELSE <<>>
    /\ script = None
    /\ figs = <<>>
    /\ saved = <<>>
    /\ reparsed = None
    /\ daemon = "none"
    /\ shim = ShimIdle

Next ==
    \/ \E c \in Chunks : ChildWrite(c)
    \/ ShimSaveFigure
    \/ \E code \in ExitCodes : ChildExit(code)
    \/ ReaderStep
    \/ ReaderEOF
    \/ Execute
    \/ ConvertNotebook
    \/ ConvertFails
    \/ Popen
    \/ PopenFails
    \/ WaitReturns
    \/ WaitTimeout
    \/ Kill
    \/ Join
    \/ Drain
    \/ Parse
    \/ Copy
    \/ Return
    \/ NotebookReturn

Spec == Init /\ [][Next]_vars

----------------------------------------------------------------------------
(* _parse_output_stream on its own: a capture is built line by line and parsed *)

LineKinds == {"text", "blank", "space", "image", "start", "end",
              "text_image", "text_start", "image_nocolon", "prefix"}

\* the k-th line of a capture, of the given kind ("x" is text that shares a line
\* with a sentinel)
CaptureLine(kind, k) ==
    CASE kind = "text"          -> <<Letter(k)>>
      [] kind = "blank"         -> <<>>
      [] kind = "space"         -> <<" ">>
      [] kind = "image"         -> IMAGE_MARKER_PREFIX \o <<":", Letter(k)>>
      [] kind = "start"         -> MD_START_MARKER
      [] kind = "end"           -> MD_END_MARKER
      [] kind = "text_image"    -> <<"x", " ">> \o IMAGE_MARKER_PREFIX \o <<":", Letter(k)>>
      [] kind = "text_start"    -> <<"x">> \o MD_START_MARKER
      [] kind = "image_nocolon" -> IMAGE_MARKER_PREFIX \o <<" ", "x">>
      [] kind = "prefix"        -> CommonPrefix

\* one more line, with its line break, is added to the capture
CaptureAddLine(kind) ==
    /\ pc = "capture"
    /\ nWrites < MaxLines
    /\ full_output' = full_output \o CaptureLine(kind, nWrites + 1) \o <<NL>>
    /\ nWrites' = nWrites + 1
    /\ UNCHANGED <<daemon, shim, callVars, script, figVars, reparsed,
                   pc, suffix, child, exitCode, returncode, pipe, written, counter, fs,
                   rpc, buffer, hiding_markdown, out_queue, terminal, parsed,
                   final_items, timedOut, result>>

\* CaptureParse with a parser that uses up the capture it is given
CaptureParse_ConsumesCapture ==
    /\ pc = "capture"
    /\ parsed' = parse_output_stream(full_output, ScratchDir)
    /\ full_output' = <<>>
    /\ pc' = "parsed"
    /\ UNCHANGED <<daemon, shim, callVars, script, figVars, reparsed,
                   suffix, child, exitCode, returncode, pipe, written, nWrites, counter,
                   fs, rpc, buffer, hiding_markdown, out_queue, terminal,
                   final_items, timedOut, result>>

\* self._parse_output_stream(full_output, images_dir)
CaptureParse ==
    /\ pc = "capture"
    /\ parsed' = parse_output_stream(full_output, ScratchDir)
    /\ pc' = "parsed"
    /\ UNCHANGED <<daemon, shim, callVars, script, figVars, reparsed,
                   suffix, child, exitCode, returncode, pipe, written, nWrites, counter,
                   fs, rpc, buffer, hiding_markdown, out_queue, terminal, full_output,
                   final_items, timedOut, result>>

\* a second call self._parse_output_stream(full_output, images_dir) on the same capture
CaptureParseAgain ==
    /\ pc = "parsed"
    /\ reparsed' = parse_output_stream(full_output, ScratchDir)
    /\ pc' = "reparsed"
    /\ UNCHANGED <<daemon, shim, callVars, script, figVars,
                   suffix, child, exitCode, returncode, pipe, written, nWrites, counter,
                   fs, rpc, buffer, hiding_markdown, out_queue, terminal, full_output,
                   parsed, final_items, timedOut, result>>

ParserInit ==
    /\ pc = "capture"
    /\ suffix = ".py"
    /\ child = "none"
    /\ exitCode = 0
    /\ returncode = None
    /\ pipe = <<>>
    /\ written = <<>>
    /\ nWrites = 0
    /\ counter = 0
    /\ fs = {}
    /\ rpc = "none"
    /\ buffer = <<>>
    /\ hiding_markdown = FALSE
    /\ out_queue = <<>>
    /\ terminal = <<>>
    /\ full_output = <<>>
    /\ parsed = None
    /\ final_items = None
    /\ timedOut = FALSE
    /\ result = None
    /\ exists = TRUE
    /\ caller = "library"
    /\ mainrc = None
    /\ cells = <<>>
    /\ script = None
    /\ figs = <<>>
    /\ saved = <<>>
    /\ reparsed = None
    /\ daemon = "none"
    /\ shim = ShimIdle

ParserNext ==
    \/ \E kind \in LineKinds : CaptureAddLine(kind)
    \/ CaptureParse
    \/ CaptureParseAgain

ParserSpec == ParserInit /\ [][ParserNext]_vars

----------------------------------------------------------------------------
(* The CLI's main(), and repeated runs of the same script *)

\* script_path.parent / f".{script_path.stem}_images" of the call
CallPersistDir == IF suffix = ".ipynb" THEN NotebookPersistDir ELSE PersistDir

\* main(): the validation of the input file
MainValidate ==
    /\ pc = "main"
    /\ IF ~exists \/ suffix \notin {".py", ".ipynb"}
       THEN mainrc' = PyInt(1) /\ pc' = "exit"
       ELSE mainrc' = mainrc /\ pc' = "execute"
    /\ UNCHANGED <<daemon, shim, exists, caller, cells, script, figVars, reparsed,
                   suffix, child, exitCode, returncode, pipe, written, nWrites, counter,
                   fs, rpc, buffer, hiding_markdown, out_queue, terminal, full_output,
                   parsed, final_items, timedOut, result>>

\* main() after execute() returned: the document is generated, the images folder is
\* removed and the return code is passed on
MainFinish ==
    /\ pc = "done"
    /\ caller = "main"
    /\ fs' = RmTree(fs, CallPersistDir)
    /\ mainrc' = IF result.return_code = PyInt(0) THEN PyInt(0) ELSE result.return_code
    /\ pc' = "exit"
    /\ UNCHANGED <<daemon, shim, exists, caller, cells, script, figVars, reparsed,
                   suffix, child, exitCode, returncode, pipe, written, nWrites, counter,
                   rpc, buffer, hiding_markdown, out_queue, terminal, full_output,
                   parsed, final_items, timedOut, result>>

\* the same script is run once more: a new main() process, or a library caller's
\* next execute() call; only the files are left of the run before
CallAgain ==
    /\ \/ pc = "exit"
       \/ caller = "library" /\ pc \in {"done", "raised"}
    /\ pc' = IF caller = "main" THEN "main" ELSE "execute"
    /\ child' = "none"
    /\ exitCode' = 0
    /\ returncode' = None
    /\ pipe' = <<>>
    /\ written' = <<>>
    /\ nWrites' = 0
    /\ counter' = 0
    /\ rpc' = "none"
    /\ buffer' = <<>>
    /\ hiding_markdown' = FALSE
    /\ out_queue' = <<>>
    /\ terminal' = <<>>
    /\ full_output' = <<>>
    /\ parsed' = None
    /\ final_items' = None
    /\ timedOut' = FALSE
    /\ result' = None
    /\ mainrc' = None
    /\ script' = None
    /\ UNCHANGED <<daemon, shim, exists, caller, cells, figVars, reparsed, suffix, fs>>

CliInit ==
    /\ caller \in {"main", "library"}
    /\ pc = IF caller = "main" THEN "main" ELSE "execute"
    /\ suffix \in {".py", ".ipynb", ".txt"}
    /\ exists \in BOOLEAN
    /\ child = "none"
    /\ exitCode = 0
    /\ returncode = None
    /\ pipe = <<>>
    /\ written = <<>>
    /\ nWrites = 0
    /\ counter = 0
    /\ fs = {}
    /\ rpc = "none"
    /\ buffer = <<>>
    /\ hiding_markdown = FALSE
    /\ out_queue = <<>>
    /\ terminal = <<>>
    /\ full_output = <<>>
    /\ parsed = None
    /\ final_items = None
    /\ timedOut = FALSE
    /\ result = None
    /\ mainrc = None
    /\ cells = IF suffix = ".ipynb" THEN ExampleNotebook ELSE <<>>
    /\ script = None
    /\ figs = <<>>
    /\ saved = <<>>
    /\ reparsed = None
    /\ daemon = "none"
    /\ shim = ShimIdle

\* the child of these runs saves figures, announces an image of its own or writes
\* an undecodable byte
CliNext ==
    \/ MainValidate
    \/ MainFinish
    \/ CallAgain
    \/ ShimSaveFigure
    \/ \E save \in BOOLEAN : ScriptPrintMarker(save)
    \/ ChildWriteInvalid
    \/ \E code \in ExitCodes : ChildExit(code)
    \/ ReaderStep
    \/ ReaderDecodeError
    \/ ReaderEOF
    \/ Execute
    \/ ConvertNotebook
    \/ ConvertFails
    \/ Popen
    \/ PopenFails
    \/ WaitReturns
    \/ WaitTimeout
    \/ Kill
    \/ Join
    \/ Drain
    \/ Parse
    \/ Copy
    \/ Return
    \/ NotebookReturn

CliSpec == CliInit /\ [][CliNext]_vars

----------------------------------------------------------------------------
(* The stream reader alone: a script whose writes are whole lines, protocol lines
   and a plain line, read by the reader thread while the main thread waits *)

\* the lines the script writes: an image marker line, the start line, a content or
\* plain line, the end line of a markdown block
StreamLines == { ImageMarkerLine(RelativeImage), Append(MD_START_MARKER, NL),
                 <<"a", NL>>, Append(MD_END_MARKER, NL) }

ReaderInit == Init /\ suffix = ".py" /\ exists = TRUE

ReaderNext ==
    \/ Execute
    \/ Popen
    \/ \E c \in StreamLines : ChildWrite(c)
    \/ ReaderStep

ReaderSpec == ReaderInit /\ [][ReaderNext]_vars

----------------------------------------------------------------------------

(* One execute() call with its scheduling: the main thread and the reader thread
   always get to take their next step; the script may start a process of its own *)

\* the script starts a process that inherits its stdout, the write end of the pipe
\* (subprocess.Popen(["sleep", ...]) in the script)
ScriptSpawn ==
    /\ child = "running"
    /\ daemon = "none"
    /\ daemon' = "holds"
    /\ UNCHANGED <<shim, callVars, script, figVars, reparsed,
                   pc, suffix, child, exitCode, returncode, pipe, written, nWrites,
                   counter, fs, rpc, buffer, hiding_markdown, out_queue, terminal,
                   full_output, parsed, final_items, timedOut, result>>

\* the process the script started ends, and with it its hold on the pipe
DaemonExit ==
    /\ daemon = "holds"
    /\ daemon' = "gone"
    /\ UNCHANGED <<shim, callVars, script, figVars, reparsed,
                   pc, suffix, child, exitCode, returncode, pipe, written, nWrites,
                   counter, fs, rpc, buffer, hiding_markdown, out_queue, terminal,
                   full_output, parsed, final_items, timedOut, result>>

\* what one write of the script puts on the pipe
LiveChunks == { <<"a">>, <<NL>> }

\* the steps of the main thread
MainStep ==
    \/ Execute
    \/ Popen
    \/ WaitReturns
    \/ WaitTimeout
    \/ Kill
    \/ Join
    \/ Drain
    \/ Parse
    \/ Copy
    \/ Return

LiveInit == Init /\ suffix = ".py" /\ exists = TRUE

LiveNext ==
    \/ MainStep
    \/ \E c \in LiveChunks : ChildWrite(c)
    \/ ScriptSpawn
    \/ DaemonExit
    \/ \E code \in ExitCodes : ChildExit(code)
    \/ ReaderStep
    \/ ReaderEOF

\* the main thread's next step (the expiry of the timeout included) and the reader
\* thread's next read are taken in the end; the child and the processes it started
\* are free never to write and never to exit
LiveSpec ==
    /\ LiveInit
    /\ [][LiveNext]_vars
    /\ WF_vars(MainStep)
    /\ WF_vars(ReaderStep \/ ReaderEOF)

----------------------------------------------------------------------------

(* A notebook run: the cells of the document, their conversion, and the child
   running the converted script line by line of converted_lines *)

\* cells of a notebook
MaxCells == 3

CellKinds == {"markdown", "raw", "print", "print_noeol", "plot", "plot_show",
              "plot_show_close", "imshow", "imshow_none"}

\* cell.cell_type of a cell of the given kind
CellType(kind) == IF kind \in {"markdown", "raw"} THEN kind ELSE "code"

\* cell.source of the k-th cell: its text or its statements; the letter of the cell
\* is the text it prints or the title of the figure it creates
CellSource(kind, k) ==
    CASE kind = "markdown"        -> <<Letter(k)>>
      [] kind = "raw"             -> <<Letter(k)>>
      [] kind = "print"           -> <<"print('", Letter(k), "')">>
      [] kind = "print_noeol"     -> <<"print('", Letter(k), "', end='')">>
      [] kind = "plot"            -> <<"plt.title('", Letter(k), "')">>
      [] kind = "plot_show"       -> <<"plt.title('", Letter(k), "')", NL, "plt.show()">>
      [] kind = "plot_show_close" -> <<"plt.title('", Letter(k), "')", NL, "plt.show()", NL,
                                       "plt.close('all')">>
      [] kind = "imshow"          -> <<"cv2.imshow('", Letter(k), "', img)">>
      [] kind = "imshow_none"     -> <<"cv2.imshow('", Letter(k), "', None)">>

\* one more cell is added to the notebook document before execute() is called
NbAddCell(kind) ==
    /\ pc = "execute"
    /\ Len(cells) < MaxCells
    /\ cells' = Append(cells, Cell(CellType(kind), CellSource(kind, Len(cells) + 1)))
    /\ UNCHANGED <<daemon, shim, exists, caller, mainrc, script, figVars, reparsed,
                   pc, suffix, child, exitCode, returncode, pipe, written, nWrites,
                   counter, fs, rpc, buffer, hiding_markdown, out_queue, terminal,
                   full_output, parsed, final_items, timedOut, result>>

\* save_figures() from figure i of the open figures on:
\* st = [out, figs, counter, files, saved]
RECURSIVE save_figures(_, _)
save_figures(st, i) ==
    IF i > Len(st.figs) THEN st
    ELSE save_figures([st EXCEPT !.counter = st.counter + 1,
                                 !.files = st.files \cup {MplPath(st.counter + 1)},
                                 !.out = st.out \o ImageMarkerLine(MplPath(st.counter + 1)),
                                 !.saved = Append(st.saved, st.figs[i])],
                      i + 1)

\* patched_imshow with a counter of its own: the number of images it has written, plus one
patched_imshow_OwnCounter(st, winname, mat) ==
    LET own == Cardinality({n \in 1..st.counter + 1 : Cv2Path(n) \in st.files}) + 1
    IN IF mat = "None"
       THEN st
       ELSE [st EXCEPT !.files = st.files \cup {Cv2Path(own)},
                       !.out = st.out \o ImageMarkerLine(Cv2Path(own)),
                       !.saved = Append(st.saved, winname)]

\* cv2.imshow(winname, mat) under the shim: the shared counter is advanced first;
\* cv2.imwrite raises for mat None, and then neither file nor marker is written
patched_imshow(st, winname, mat) ==
    IF mat = "None"
    THEN [st EXCEPT !.counter = st.counter + 1]
    ELSE [st EXCEPT !.counter = st.counter + 1,
                    !.files = st.files \cup {Cv2Path(st.counter + 1)},
                    !.out = st.out \o ImageMarkerLine(Cv2Path(st.counter + 1)),
                    !.saved = Append(st.saved, winname)]

\* the child runs one statement of the converted script
RunStatement(st, stmt) ==
    IF stmt = <<>> THEN st
    ELSE IF stmt[1] = "print('"
    THEN [st EXCEPT !.out = st.out \o SubSeq(stmt, 2, Len(stmt) - 1)
                                 \o (IF stmt[Len(stmt)] = "')" THEN <<NL>> ELSE <<>>)]
    ELSE IF stmt[1] = "print(base64.b64decode('"
    THEN [st EXCEPT !.out = st.out \o B64Decode(SubSeq(stmt, 2, Len(stmt) - 1)) \o <<NL>>]
    ELSE IF stmt[1] = "plt.title('"
    THEN [st EXCEPT !.figs = Append(st.figs, LetterLine(stmt[2]))]
    ELSE IF stmt[1] = "plt.show()"
    THEN save_figures(st, 1)
    ELSE IF stmt[1] = "plt.close('all')"
    THEN [st EXCEPT !.figs = <<>>]
    ELSE IF stmt[1] = "cv2.imshow('"
    THEN patched_imshow(st, LetterLine(stmt[2]),
                        IF stmt[3] = "', None)" THEN "None" ELSE "img")
    ELSE st

RECURSIVE RunStatements(_, _)
RunStatements(st, stmts) ==
    IF stmts = <<>> THEN st
    ELSE RunStatements(RunStatement(st, Head(stmts)), Tail(stmts))

\* the child's state as the statements see it
ChildState == [out |-> <<>>, figs |-> figs, counter |-> counter, files |-> fs,
               saved |-> saved]

\* runpy runs the next line of converted_lines, and the reader thread captures what
\* it writes
NbRunCell ==
    /\ child = "running"
    /\ nWrites < Len(script.some)
    /\ LET r == RunStatements(ChildState, Split(script.some[nWrites + 1], <<NL>>))
       IN /\ written' = written \o r.out
          /\ out_queue' = out_queue \o r.out
          /\ figs' = r.figs
          /\ counter' = r.counter
          /\ fs' = r.files
          /\ saved' = r.saved
    /\ nWrites' = nWrites + 1
    /\ UNCHANGED <<daemon, shim, callVars, script, reparsed,
                   pc, suffix, child, exitCode, returncode, pipe, rpc, buffer,
                   hiding_markdown, terminal, full_output, parsed, final_items,
                   timedOut, result>>

\* the script is over: save_remaining runs at exit, the child exits with 0 and the
\* reader thread reads to the end of the stream
NbChildExit ==
    /\ child = "running"
    /\ nWrites = Len(script.some)
    /\ LET r == save_figures(ChildState, 1)
       IN /\ written' = written \o r.out
          /\ out_queue' = out_queue \o r.out
          /\ counter' = r.counter
          /\ fs' = r.files
          /\ saved' = r.saved
    /\ child' = "exited"
    /\ exitCode' = 0
    /\ rpc' = "done"
    /\ UNCHANGED <<daemon, shim, callVars, script, figs, reparsed,
                   pc, suffix, returncode, pipe, nWrites, buffer, hiding_markdown,
                   terminal, full_output, parsed, final_items, timedOut, result>>

NotebookInit ==
    /\ pc = "execute"
    /\ suffix = ".ipynb"
    /\ exists = TRUE
    /\ caller = "library"
    /\ cells = <<>>
    /\ child = "none"
    /\ exitCode = 0
    /\ returncode = None
    /\ pipe = <<>>
    /\ written = <<>>
    /\ nWrites = 0
    /\ counter = 0
    /\ fs = {}
    /\ rpc = "none"
    /\ buffer = <<>>
    /\ hiding_markdown = FALSE
    /\ out_queue = <<>>
    /\ terminal = <<>>
    /\ full_output = <<>>
    /\ parsed = None
    /\ final_items = None
    /\ timedOut = FALSE
    /\ result = None
    /\ mainrc = None
    /\ script = None
    /\ figs = <<>>
    /\ saved = <<>>
    /\ reparsed = None
    /\ daemon = "none"
    /\ shim = ShimIdle

NotebookNext ==
    \/ \E kind \in CellKinds : NbAddCell(kind)
    \/ Execute
    \/ ConvertNotebook
    \/ Popen
    \/ NbRunCell
    \/ NbChildExit
    \/ WaitReturns
    \/ Join
    \/ Drain
    \/ Parse
    \/ Copy
    \/ Return
    \/ NotebookReturn

NotebookSpec == NotebookInit /\ [][NotebookNext]_vars

----------------------------------------------------------------------------
(* The round trip of one markdown cell: its text is built piece by piece, the
   notebook is converted, run and parsed *)

\* pieces a markdown cell's text is made of
MaxPieces == 3

TextPieces == { <<"a">>, <<"b">>, <<NL>>, MD_START_MARKER, MD_END_MARKER,
                ImageSep \o <<"c">> }

\* the number of pieces a text is made of
RECURSIVE PieceCount(_)
PieceCount(text) ==
    IF text = <<>> THEN 0
    ELSE LET ps == {p \in TextPieces : StartsWith(text, p)}
             p == CHOOSE q \in ps : \A r \in ps : Len(r) <= Len(q)
         IN 1 + PieceCount(SubSeq(text, Len(p) + 1, Len(text)))

\* the text of the notebook's one markdown cell
MdText == IF cells = <<>> THEN <<>> ELSE cells[1].source

\* the markdown cell's text gets one more piece before execute() is called
MdTextAdd(piece) ==
    /\ pc = "execute"
    /\ PieceCount(MdText) < MaxPieces
    /\ cells' = << Cell("markdown", MdText \o piece) >>
    /\ UNCHANGED <<daemon, shim, exists, caller, mainrc, script, figVars, reparsed,
                   pc, suffix, child, exitCode, returncode, pipe, written, nWrites,
                   counter, fs, rpc, buffer, hiding_markdown, out_queue, terminal,
                   full_output, parsed, final_items, timedOut, result>>

RoundTripInit == NotebookInit

RoundTripNext ==
    \/ \E piece \in TextPieces : MdTextAdd(piece)
    \/ Execute
    \/ ConvertNotebook
    \/ Popen
    \/ NbRunCell
    \/ NbChildExit
    \/ WaitReturns
    \/ Join
    \/ Drain
    \/ Parse
    \/ Copy
    \/ Return
    \/ NotebookReturn

RoundTripSpec == RoundTripInit /\ [][RoundTripNext]_vars

----------------------------------------------------------------------------
(* The shim's hooks statement by statement: the save of an image and the print of
   its marker are two steps of the child. figs holds, per open figure, "ok" or
   "bad" (a figure whose savefig raises); written is what the child has printed *)

\* open figures of the script
MaxFigs == 2

\* the script creates a figure
PltFigure(kind) ==
    /\ child = "running"
    /\ shim.loop = "none"
    /\ Len(figs) < MaxFigs
    /\ figs' = Append(figs, kind)
    /\ UNCHANGED <<daemon, shim, callVars, script, saved, reparsed,
                   pc, suffix, child, exitCode, returncode, pipe, written, nWrites,
                   counter, fs, rpc, buffer, hiding_markdown, out_queue, terminal,
                   full_output, parsed, final_items, timedOut, result>>

\* the script calls plt.show(): patched_show enters save_figures
PltShow ==
    /\ child = "running"
    /\ shim.loop = "none"
    /\ nWrites < MaxWrites
    /\ nWrites' = nWrites + 1
    /\ shim' = [loop |-> "show", i |-> 1, pending |-> None]
    /\ UNCHANGED <<daemon, callVars, script, figVars, reparsed,
                   pc, suffix, child, exitCode, returncode, pipe, written,
                   counter, fs, rpc, buffer, hiding_markdown, out_queue, terminal,
                   full_output, parsed, final_items, timedOut, result>>

\* ShimSavefig that goes on to the print of the marker when savefig has raised
ShimSavefig_MarkerOnRaise ==
    /\ child = "running"
    /\ shim.loop \in {"show", "exit"}
    /\ shim.pending = None
    /\ shim.i <= Len(figs)
    /\ counter' = counter + 1
    /\ fs' = IF figs[shim.i] = "ok" THEN fs \cup {MplPath(counter + 1)} ELSE fs
    /\ shim' = [shim EXCEPT !.pending = Some(MplPath(counter + 1))]
    /\ child' = child
    /\ exitCode' = exitCode
    /\ UNCHANGED <<daemon, callVars, script, figVars, reparsed,
                   pc, suffix, returncode, pipe, written, nWrites,
                   rpc, buffer, hiding_markdown, out_queue, terminal,
                   full_output, parsed, final_items, timedOut, result>>

\* save_figures, the count and the save of one figure: counter[0] += 1 and
\* fig.savefig(image_path). When savefig raises inside plt.show() the script ends with
\* the exception and the exit hook save_remaining starts; when it raises inside the
\* exit hook the child exits
ShimSavefig ==
    /\ child = "running"
    /\ shim.loop \in {"show", "exit"}
    /\ shim.pending = None
    /\ shim.i <= Len(figs)
    /\ counter' = counter + 1
    /\ IF figs[shim.i] = "ok"
       THEN /\ fs' = fs \cup {MplPath(counter + 1)}
            /\ shim' = [shim EXCEPT !.pending = Some(MplPath(counter + 1))]
            /\ child' = child
            /\ exitCode' = exitCode
       ELSE /\ fs' = fs
            /\ IF shim.loop = "show"
               THEN /\ shim' = [loop |-> "exit", i |-> 1, pending |-> None]
                    /\ child' = child
                    /\ exitCode' = 1
               ELSE /\ shim' = ShimIdle
                    /\ child' = "exited"
                    /\ exitCode' = exitCode
    /\ UNCHANGED <<daemon, callVars, script, figVars, reparsed,
                   pc, suffix, returncode, pipe, written, nWrites,
                   rpc, buffer, hiding_markdown, out_queue, terminal,
                   full_output, parsed, final_items, timedOut, result>>

\* _print_image_marker(image_path) after the save, in save_figures and in
\* patched_imshow
ShimAnnounce ==
    /\ child = "running"
    /\ shim.pending # None
    /\ written' = written \o ImageMarkerLine(shim.pending.some)
    /\ shim' = IF shim.loop = "imshow" THEN ShimIdle
               ELSE [shim EXCEPT !.pending = None, !.i = shim.i + 1]
    /\ UNCHANGED <<daemon, callVars, script, figVars, reparsed,
                   pc, suffix, child, exitCode, returncode, pipe, nWrites,
                   counter, fs, rpc, buffer, hiding_markdown, out_queue, terminal,
                   full_output, parsed, final_items, timedOut, result>>

\* the loop of save_figures is over: plt.show() returns to the script, the exit hook
\* returns and the child exits
ShimLoopEnd ==
    /\ child = "running"
    /\ shim.loop \in {"show", "exit"}
    /\ shim.pending = None
    /\ shim.i > Len(figs)
    /\ shim' = ShimIdle
    /\ child' = IF shim.loop = "exit" THEN "exited" ELSE child
    /\ UNCHANGED <<daemon, callVars, script, figVars, reparsed,
                   pc, suffix, exitCode, returncode, pipe, written, nWrites,
                   counter, fs, rpc, buffer, hiding_markdown, out_queue, terminal,
                   full_output, parsed, final_items, timedOut, result>>

\* the script calls cv2.imshow(winname, mat): counter[0] += 1 and cv2.imwrite, which
\* raises for mat None; the exception is swallowed and the print is skipped
Cv2Imshow(mat) ==
    /\ child = "running"
    /\ shim.loop = "none"
    /\ nWrites < MaxWrites
    /\ nWrites' = nWrites + 1
    /\ counter' = counter + 1
    /\ IF mat = "None"
       THEN fs' = fs /\ shim' = shim
       ELSE /\ fs' = fs \cup {Cv2Path(counter + 1)}
            /\ shim' = [loop |-> "imshow", i |-> 0, pending |-> Some(Cv2Path(counter + 1))]
    /\ UNCHANGED <<daemon, callVars, script, figVars, reparsed,
                   pc, suffix, child, exitCode, returncode, pipe, written,
                   rpc, buffer, hiding_markdown, out_queue, terminal,
                   full_output, parsed, final_items, timedOut, result>>

\* the script is over: the interpreter runs the exit hook save_remaining
ScriptEnd ==
    /\ child = "running"
    /\ shim.loop = "none"
    /\ shim' = [loop |-> "exit", i |-> 1, pending |-> None]
    /\ UNCHANGED <<daemon, callVars, script, figVars, reparsed,
                   pc, suffix, child, exitCode, returncode, pipe, written, nWrites,
                   counter, fs, rpc, buffer, hiding_markdown, out_queue, terminal,
                   full_output, parsed, final_items, timedOut, result>>

\* the child has started: main() of the runner has made counter = [0] and patched
\* the two libraries
ShimInit ==
    /\ pc = "wait"
    /\ suffix = ".py"
    /\ child = "running"
    /\ exitCode = 0
    /\ returncode = None
    /\ pipe = <<>>
    /\ written = <<>>
    /\ nWrites = 0
    /\ counter = 0
    /\ fs = {}
    /\ rpc = "run"
    /\ buffer = <<>>
    /\ hiding_markdown = FALSE
    /\ out_queue = <<>>
    /\ terminal = <<>>
    /\ full_output = <<>>
    /\ parsed = None
    /\ final_items = None
    /\ timedOut = FALSE
    /\ result = None
    /\ exists = TRUE
    /\ caller = "library"
    /\ mainrc = None
    /\ cells = <<>>
    /\ script = None
    /\ figs = <<>>
    /\ saved = <<>>
    /\ reparsed = None
    /\ daemon = "none"
    /\ shim = ShimIdle

ShimNext ==
    \/ \E kind \in {"ok", "bad"} : PltFigure(kind)
    \/ PltShow
    \/ ShimSavefig
    \/ ShimAnnounce
    \/ ShimLoopEnd
    \/ \E mat \in {"img", "None"} : Cv2Imshow(mat)
    \/ ScriptEnd

ShimSpec == ShimInit /\ [][ShimNext]_vars

----------------------------------------------------------------------------
(* Vocabulary of the properties *)

\* the lines of the text and markdown items, in item order: each content split at
\* the newlines that joined its lines
RECURSIVE ItemLines(_)
ItemLines(items) ==
    IF items = <<>> THEN <<>>
    ELSE (IF Head(items).kind \in {"text", "markdown"}
          THEN Split(Head(items).content, <<NL>>) ELSE <<>>) \o ItemLines(Tail(items))

\* the capture lines an item comes from (read off the letters it holds)
ItemSourceLines(item) ==
    {LetterLine(item.content[i]) : i \in {j \in 1..Len(item.content) : item.content[j] \in Letters}}

\* a sentinel occurs in the line
HasSentinel(line) == \E m \in markers : Contains(line, m)

\* the text of one capture line that is not part of a marker: the whole line when it
\* holds no sentinel; what stands before an image marker; what stands before and
\* after a markdown sentinel
NonMarkerText(line) ==
    LET NonEmpty(t) == IF t = <<>> THEN <<>> ELSE <<t>>
    IN IF ~HasSentinel(line) THEN <<line>>
       ELSE IF Contains(line, MD_START_MARKER)
            THEN NonEmpty(SubSeq(line, 1, Find(line, MD_START_MARKER) - 1))
                 \o NonEmpty(SubSeq(line, Find(line, MD_START_MARKER) + Len(MD_START_MARKER),
                                    Len(line)))
       ELSE IF Contains(line, MD_END_MARKER)
            THEN NonEmpty(SubSeq(line, 1, Find(line, MD_END_MARKER) - 1))
                 \o NonEmpty(SubSeq(line, Find(line, MD_END_MARKER) + Len(MD_END_MARKER),
                                    Len(line)))
       ELSE NonEmpty(SubSeq(line, 1, Find(line, IMAGE_MARKER_PREFIX) - 1))

RECURSIVE NonMarkerTexts(_)
NonMarkerTexts(lines) ==
    IF lines = <<>> THEN <<>> ELSE NonMarkerText(Head(lines)) \o NonMarkerTexts(Tail(lines))

\* a line that is a marker line of the wire format: the trimmed line starts with
\* the image prefix and its colon, or a markdown sentinel is alone on the line
IsWireMarkerLine(line) ==
    \/ StartsWith(Strip(line), ImageSep)
    \/ line = MD_START_MARKER
    \/ line = MD_END_MARKER

\* the non-empty strict prefixes of the three sentinels
StrictPrefixes == UNION {{SubSeq(m, 1, n) : n \in 1..(Len(m) - 1)} : m \in markers}

\* no complete sentinel occurs in s
NoSentinel(s) == \A m \in markers : ~Contains(s, m)

\* the capture: the queue, and after the drain the drained text
Capture == IF pc \in {"execute", "convert", "popen", "wait", "kill", "join", "drain"}
           THEN out_queue ELSE full_output

----------------------------------------------------------------------------
(* C1: the items _parse_output_stream returns are in emission order: for every two
   items i < j, every capture line item i comes from precedes every capture line
   item j comes from (so image items keep the order of their marker lines). *)
C1_EmissionOrder ==
    (pc = "parsed" /\ parsed.exc = "none") =>
        \A i, j \in 1..Len(parsed.items) :
            i < j => \A a \in ItemSourceLines(parsed.items[i]) :
                        \A b \in ItemSourceLines(parsed.items[j]) : a < b

\* a text line, an image marker line and a markdown block, each ending in its item
C1_Witness ==
    /\ pc = "parsed"
    /\ parsed.exc = "none"
    /\ Len(parsed.items) >= 3
    /\ {parsed.items[i].kind : i \in 1..Len(parsed.items)} = {"text", "image", "markdown"}
    /\ \A i \in 1..Len(parsed.items) : ItemSourceLines(parsed.items[i]) # {}

(* C2: no non-marker text is lost or invented: the capture text that is not part of
   a marker, text sharing a line with a marker included, equals in order the lines
   of the text and markdown items. *)
C2_NoLoss ==
    pc = "parsed" =>
        /\ parsed.exc = "none"
        /\ NonMarkerTexts(SplitLines(full_output)) = ItemLines(parsed.items)

(* C3: every character read from the pipe is in the capture exactly once and in read
   order, whatever the filter does, and ExecutionResult.stdout is the whole sequence
   read. *)
C3_CaptureIsWhatWasRead ==
    /\ child # "none" => Capture \o pipe = written
    /\ (pc = "done" /\ child # "none") => result.stdout = written

(* C4: after a timeout kill execute() returns a result whose return_code is a
   non-zero integer that no normally exiting child can produce, whose success is
   false and whose error_message is set. *)
C4_TimeoutSentinel ==
    (pc = "done" /\ timedOut /\ child = "killed") =>
        /\ IsPyInt(result.return_code)
        /\ result.return_code.int \notin 0..255
        /\ result.success = FALSE
        /\ result.error_message # None

(* C5: after a timeout kill everything the child wrote before the kill is in
   ExecutionResult.stdout and is parsed into output_items as for a child that exited
   by itself after the same output. *)
C5_TimeoutKeepsOutput ==
    (pc = "done" /\ child = "killed") =>
        /\ result.stdout = written
        /\ parsed = parse_output_stream(written, ScratchDir)
        /\ parsed.exc = "none"
        /\ result.output_items # None

(* C6: when the child exits by itself before the timeout, whatever it printed, the
   result's return_code is the child's raw exit code; exit code 2 with no output
   gives return_code 2, success false and an empty item list. *)
C6_RawExitCode ==
    (pc = "done" /\ child = "exited" /\ ~timedOut) =>
        /\ result.return_code = PyInt(exitCode)
        /\ (exitCode = 2 /\ written = <<>>) =>
               (~result.success /\ result.output_items = Some(<<>>))

(* C7: every result execute() returns has success true iff return_code == 0, and
   has_errors true iff stderr is non-empty or return_code != 0. *)
C7_SuccessIffZero ==
    pc = "done" =>
        /\ result.success <=> (result.return_code = PyInt(0))
        /\ has_errors(result) <=> (result.stderr # <<>> \/ result.return_code # PyInt(0))

\* the timeout path: the child was killed and process.returncode is still None
C7_Witness ==
    /\ pc = "done"
    /\ timedOut
    /\ child = "killed"
    /\ result.return_code = None
    /\ ~result.success

(* C8 as claimed: in a stream with no complete sentinel, every strict prefix of a
   sentinel, whether a non-matching character, a newline or the end of the stream
   follows it, is in the terminal view and in a text item. *)
C8_PrefixNeverSuppressed ==
    (pc = "done" /\ child # "none" /\ NoSentinel(written)) =>
        \A q \in StrictPrefixes :
            Contains(written, q) =>
                /\ Contains(terminal, q)
                /\ result.output_items # None
                /\ \E k \in 1..Len(result.output_items.some) :
                      /\ result.output_items.some[k].kind = "text"
                      /\ Contains(result.output_items.some[k].content, q)

(* C8 amended: in a stream with no complete sentinel the terminal view is the stream
   up to what the reader still holds at the end of the stream, which is empty or a
   sentinel prefix; so a prefix followed by a non-matching character or a newline is
   on the terminal at its place, a prefix still held at the end of the stream is
   not, and every prefix is in the text item. *)
C8_PrefixShownUnlessHeld ==
    (pc = "done" /\ child # "none" /\ NoSentinel(written)) =>
        /\ terminal \o buffer = written
        /\ buffer = <<>> \/ buffer \in StrictPrefixes
        /\ \A q \in StrictPrefixes : \A i \in 1..Len(written) :
              MatchAt(written, q, i) =>
                  /\ i + Len(q) - 1 <= Len(terminal) => MatchAt(terminal, q, i)
                  /\ result.output_items # None
                  /\ \E k \in 1..Len(result.output_items.some) :
                        /\ result.output_items.some[k].kind = "text"
                        /\ Contains(result.output_items.some[k].content, q)

\* a prefix followed by a letter was written, and another prefix is held at the end
C8_Witness ==
    /\ pc = "done"
    /\ NoSentinel(written)
    /\ Contains(written, CommonPrefix \o <<"a">>)
    /\ Contains(terminal, CommonPrefix \o <<"a">>)
    /\ buffer \in StrictPrefixes

(* C9: _parse_output_stream never returns a text item with empty content. *)
C9_NoEmptyTextItem ==
    (pc = "parsed" /\ parsed.exc = "none") =>
        \A i \in 1..Len(parsed.items) :
            parsed.items[i].kind = "text" => parsed.items[i].content # <<>>

(* C10: only a line whose trimmed text starts with the image prefix and colon, or on
   which a markdown sentinel stands alone, is taken as a marker; any other line,
   also one with a sentinel inside other text, is kept in a text or markdown item. *)
C10_OnlyWholeLineMarkers ==
    pc = "parsed" =>
        /\ parsed.exc = "none"
        /\ \A n \in 1..Len(SplitLines(full_output)) :
              LET line == SplitLines(full_output)[n]
              IN ~IsWireMarkerLine(line) =>
                    \E k \in 1..Len(ItemLines(parsed.items)) :
                        ItemLines(parsed.items)[k] = line

----------------------------------------------------------------------------
(* Vocabulary of the properties of materialization and of notebook runs *)

IsImage(item) == item.kind = "image"

\* the items of the given sequence that are images
Images(items) == SelectSeq(items, IsImage)

\* the path an image marker's path stands for: an absolute path itself, any other
\* path inside the scratch images directory
Resolved(p) ==
    IF p = <<>> THEN ScratchDir
    ELSE IF p[1] = "/" THEN p ELSE ScratchDir \o <<"/">> \o p

\* img_<k as 4 digits><suffix>, for k < 10
ImgName(k, sfx) == <<"img_", "0", "0", "0", Digit(k)>> \o sfx

\* the image items whose content lies in the given directory
ImagesIn(items, dir) ==
    LET InDir(item) == IsImage(item) /\ StartsWith(item.content, dir \o <<"/">>)
    IN SelectSeq(items, InDir)

\* the lines of a capture that hold the image sentinel
ImageLines(capture) ==
    LET HasImage(line) == Contains(line, IMAGE_MARKER_PREFIX)
    IN SelectSeq(SplitLines(capture), HasImage)

\* the sources of the code cells, in document order, joined by an empty line
CodeCellsSource(cs) ==
    LET IsCode(cell) == cell.cell_type = "code"
        code == SelectSeq(cs, IsCode)
    IN JoinWith([i \in 1..Len(code) |-> code[i].source], <<NL, NL>>)

\* the cells an item of a notebook run comes from: the cells whose letters a text
\* or markdown item holds; for the k-th image item the cell that created the
\* figure of the k-th file the shim saved
ItemCells(items, j) ==
    IF IsImage(items[j])
    THEN LET k == Cardinality({i \in 1..j : IsImage(items[i])})
         IN IF k <= Len(saved) THEN {saved[k]} ELSE {}
    ELSE ItemSourceLines(items[j])

\* the terminal view the filter is to give for a stream of complete lines: of a line
\* with the image sentinel what stands before the sentinel, any other line whole
RECURSIVE TerminalView(_)
TerminalView(lines) ==
    IF lines = <<>> THEN <<>>
    ELSE (IF Contains(Head(lines), IMAGE_MARKER_PREFIX)
          THEN SubSeq(Head(lines), 1, Find(Head(lines), IMAGE_MARKER_PREFIX) - 1)
          ELSE Head(lines) \o <<NL>>) \o TerminalView(Tail(lines))

----------------------------------------------------------------------------
(* C11: during materialization an image item whose file does not exist is kept at
   its position with its content unchanged, by _copy_images_to_persistent and by the
   notebook path's copy into the notebook's persistent directory. *)
C11_MissingImageKept ==
    /\ pc = "cleanup" =>
          /\ Len(final_items) = Len(parsed.items)
          /\ \A i \in 1..Len(parsed.items) :
                (IsImage(parsed.items[i]) /\ ~PathExists(fs, parsed.items[i].content))
                    => final_items[i] = parsed.items[i]
    /\ (pc = "done" /\ suffix = ".ipynb" /\ result.output_items # None) =>
          /\ Len(result.output_items.some) = Len(final_items)
          /\ \A i \in 1..Len(final_items) :
                (IsImage(final_items[i]) /\ final_items[i] = parsed.items[i])
                    => result.output_items.some[i] = final_items[i]

(* C12: across repeated runs of the same script the persistent images directory is
   append-only: no step of a later run removes a file that is in it, and no
   materialization writes a file that is already in it. *)
C12_AppendOnly ==
    [][\A p \in fs :
          StartsWith(p, CallPersistDir \o <<"/">>) =>
              /\ p \in fs'
              /\ ~(/\ pc = "copy"
                   /\ pc' = "cleanup"
                   /\ suffix # ".ipynb"
                   /\ \E i \in 1..Len(final_items') :
                         final_items'[i] = OutputItem("image", p))
              /\ ~(/\ pc = "notebook"
                   /\ \E i \in 1..Len(result'.output_items.some) :
                         result'.output_items.some[i] = OutputItem("image", p))]_vars

(* C13: an image marker's path that is not absolute gives an image item whose
   content is the path inside the scratch images directory, an absolute path is
   kept; after materialization the k-th image item whose file exists has content
   <persistent_dir>/img_<k as 4 digits><original suffix>. *)
C13_ImagePaths ==
    /\ (/\ parsed # None
        /\ parsed.exc = "none"
        /\ ~Contains(full_output, MD_START_MARKER)
        /\ ~Contains(full_output, MD_END_MARKER)
        /\ \A n \in 1..Len(ImageLines(full_output)) :
              StartsWith(ImageLines(full_output)[n], ImageSep)) =>
          LET lines == ImageLines(full_output)
              imgs == Images(parsed.items)
          IN /\ Len(imgs) = Len(lines)
             /\ \A k \in 1..Len(lines) :
                   imgs[k].content =
                       Resolved(Strip(SubSeq(lines[k], Len(ImageSep) + 1, Len(lines[k]))))
    /\ pc = "cleanup" =>
          LET Existing(item) == IsImage(item) /\ item.content \in fs
              src == SelectSeq(parsed.items, Existing)
              dst == ImagesIn(final_items, RunPersistDir)
          IN /\ Len(final_items) = Len(parsed.items)
             /\ Len(dst) = Len(src)
             /\ \A i \in 1..Len(parsed.items) :
                   Existing(parsed.items[i]) <=>
                       (IsImage(final_items[i])
                        /\ StartsWith(final_items[i].content, RunPersistDir \o <<"/">>))
             /\ \A k \in 1..Len(src) :
                   dst[k].content =
                       RunPersistDir \o <<"/">> \o ImgName(k, PathSuffix(src[k].content))
    /\ (pc = "done" /\ suffix = ".ipynb" /\ result.output_items # None) =>
          LET src == ImagesIn(final_items, TmpPersistDir)
              dst == Images(result.output_items.some)
          IN /\ Len(dst) = Len(src)
             /\ \A k \in 1..Len(src) :
                   dst[k].content =
                       NotebookPersistDir \o <<"/">> \o ImgName(k, PathSuffix(src[k].content))

\* a script run whose image f.png, announced by a relative path, ends as img_0001.png
\* and whose figure saved by the shim ends as img_0002.png
C13_Witness ==
    /\ pc = "done"
    /\ suffix = ".py"
    /\ written = ImageMarkerLine(RelativeImage) \o ImageMarkerLine(MplPath(1))
    /\ parsed.items = << OutputItem("image", ScratchDir \o <<"/">> \o RelativeImage),
                         OutputItem("image", MplPath(1)) >>
    /\ result.output_items =
          Some(<< OutputItem("image", PersistDir \o <<"/", "img_", "0", "0", "0", "1", ".png">>),
                  OutputItem("image", PersistDir \o <<"/", "img_", "0", "0", "0", "2", ".png">>) >>)

(* C14: two calls of _parse_output_stream with the same capture and the same scratch
   directory return equal item lists, or raise the same exception. *)
C14_ReparseEqual ==
    pc = "reparsed" => reparsed = parsed

\* a capture of several items was parsed twice
C14_Witness ==
    /\ pc = "reparsed"
    /\ parsed.exc = "none"
    /\ Len(parsed.items) >= 3
    /\ Len(reparsed.items) >= 3

(* C15: when converting the notebook fails, execute() returns a result with
   return_code 1, success false and a message describing the parse failure, and no
   child process was launched by the call. *)
C15_ConvertFailure ==
    (pc = "done" /\ suffix = ".ipynb" /\ script = None) =>
        /\ result.return_code = PyInt(1)
        /\ ~result.success
        /\ result.error_message = Some(<<"Failed to parse notebook: ", "NotJSONError">>)
        /\ child = "none"
        /\ rpc = "none"
        /\ written = <<>>

\* the conversion failed and execute() returned
C15_Witness ==
    /\ pc = "done"
    /\ suffix = ".ipynb"
    /\ script = None
    /\ result.return_code = PyInt(1)

(* C16 as claimed: in the items of a notebook run the markdown item of a markdown
   cell comes after every item produced by earlier cells and before every item
   produced by later cells. *)
C16_DocumentOrder ==
    (pc = "done" /\ result.output_items # None) =>
        LET items == result.output_items.some
        IN /\ \A c \in 1..Len(cells) :
                 cells[c].cell_type = "markdown" =>
                     \E i \in 1..Len(items) :
                         items[i] = OutputItem("markdown", cells[c].source)
           /\ \A i \in 1..Len(items) :
                 items[i].kind = "markdown" =>
                     \A c \in ItemCells(items, i) :
                         cells[c].cell_type = "markdown" =>
                             \A j \in 1..Len(items) : \A s \in ItemCells(items, j) :
                                 /\ s < c => j < i
                                 /\ s > c => j > i

(* C16 amended: the markdown item of a markdown cell comes after every text and
   markdown item produced by earlier cells and before every item, images included,
   produced by later cells; the image of a figure an earlier cell created may come
   after it, since the shim saves the open figures at every later show call and at
   the exit of the child. *)
C16_DocumentOrderButFigures ==
    (pc = "done" /\ result.output_items # None) =>
        LET items == result.output_items.some
        IN /\ \A c \in 1..Len(cells) :
                 cells[c].cell_type = "markdown" =>
                     \E i \in 1..Len(items) :
                         items[i] = OutputItem("markdown", cells[c].source)
           /\ \A i \in 1..Len(items) :
                 items[i].kind = "markdown" =>
                     \A c \in ItemCells(items, i) :
                         cells[c].cell_type = "markdown" =>
                             \A j \in 1..Len(items) : \A s \in ItemCells(items, j) :
                                 /\ (s < c /\ ~IsImage(items[j])) => j < i
                                 /\ s > c => j > i

\* a figure created and never shown, a markdown cell, a printing cell: the markdown
\* item, the text item, and after them the image saved at exit
C16_Witness ==
    /\ pc = "done"
    /\ Len(cells) = 3
    /\ cells[1] = Cell("code", CellSource("plot", 1))
    /\ cells[2].cell_type = "markdown"
    /\ cells[3] = Cell("code", CellSource("print", 3))
    /\ result.output_items # None
    /\ Len(result.output_items.some) = 3
    /\ result.output_items.some[1] = OutputItem("markdown", <<Letter(2)>>)
    /\ result.output_items.some[2] = OutputItem("text", <<Letter(3)>>)
    /\ IsImage(result.output_items.some[3])

(* C17: after a notebook run the result's script_path is the notebook's path and its
   source_code is the code cells' sources in document order; no markdown cell, no
   generated snippet and not the temporary script's path is in them. *)
C17_NotebookSource ==
    (pc = "done" /\ suffix = ".ipynb" /\ child \in {"exited", "killed"}) =>
        /\ result.script_path = ScriptPath(".ipynb")
        /\ result.source_code = CodeCellsSource(cells)
        /\ ~Contains(result.source_code, MD_START_MARKER)

(* C18: execute() on a path that does not exist raises FileNotFoundError before a
   scratch directory or a child exists, and main() returns 1 for a missing file or
   for a suffix other than .py/.ipynb without calling execute(). *)
C18_FailFast ==
    /\ pc = "raised" => (~exists /\ caller = "library")
    /\ ~exists =>
          /\ pc \in {"main", "execute", "raised", "exit"}
          /\ child = "none"
          /\ rpc = "none"
          /\ result = None
    /\ (caller = "main" /\ (~exists \/ suffix \notin {".py", ".ipynb"})) =>
          /\ pc \in {"main", "exit"}
          /\ pc = "exit" => mainrc = PyInt(1)
          /\ child = "none"
          /\ result = None

\* execute() raised for a missing script
C18_Witness ==
    /\ pc = "raised"
    /\ ~exists
    /\ child = "none"

(* C19: a failure after validation, while launching the child, reading its output,
   parsing the capture or materializing the images, is not raised from execute():
   execute() returns a result with success false, return_code -1 and an
   error_message. *)
C19_FailureCaptured ==
    /\ exists => pc # "raised"
    /\ (/\ pc = "done"
        /\ \/ child = "failed"
           \/ rpc = "dead"
           \/ parsed # None /\ parsed.exc # "none"
           \/ parsed # None /\ result.output_items = None) =>
          /\ result.return_code = PyInt(-1)
          /\ ~result.success
          /\ result.error_message # None

(* C20: of a complete image marker line outside a markdown region nothing from the
   start of the sentinel to the line's newline is written to the terminal, and all
   that precedes the sentinel on the line is: for a stream of complete lines without
   a markdown sentinel, whose image sentinels are each followed by the colon, the
   terminal view is the stream without these parts. *)
C20_MarkerLineSuppressed ==
    (/\ pc = "done"
     /\ rpc = "done"
     /\ written # <<>>
     /\ written[Len(written)] = NL
     /\ ~Contains(written, MD_START_MARKER)
     /\ ~Contains(written, MD_END_MARKER)
     /\ \A n \in 1..Len(SplitLines(written)) :
           LET line == SplitLines(written)[n]
           IN Contains(line, IMAGE_MARKER_PREFIX) =>
                  Find(line, ImageSep) = Find(line, IMAGE_MARKER_PREFIX)) =>
        terminal = TerminalView(SplitLines(written))

----------------------------------------------------------------------------
(* Vocabulary of the properties of the reader and of the parser states *)

\* s ends with m
EndsWith(s, m) == Len(s) >= Len(m) /\ SubSeq(s, Len(s) - Len(m) + 1, Len(s)) = m

----------------------------------------------------------------------------
\* C21: while the markdown suppression is on, no step writes to the terminal, and the
\* suppression is left only by the step that reads the last character of an end marker
C21_MarkdownHidden ==
    [][hiding_markdown =>
          /\ terminal' = terminal
          /\ (~hiding_markdown' =>
                 /\ Len(out_queue') = Len(out_queue) + 1
                 /\ EndsWith(out_queue', MD_END_MARKER))]_vars

\* a start marker, a character and an end marker were read, and the terminal is empty
C21_Witness ==
    /\ ~hiding_markdown
    /\ out_queue = MD_START_MARKER \o <<"a">> \o MD_END_MARKER
    /\ terminal = <<>>

----------------------------------------------------------------------------
\* the child has a figure marker to write and the pipe has no room for it: the write blocks
ShimSaveFigureBlocked ==
    /\ child = "running"
    /\ nWrites < MaxWrites
    /\ Len(pipe) + Len(ImageMarkerLine(MplPath(counter + 1))) > PipeCap

\* C22: in no state is the child blocked on a write to the full pipe while the main thread
\* waits for it and the reader thread is not going to read the pipe any more
C22_NoBlockedChild ==
    ~ ( /\ pc = "wait"
        /\ ShimSaveFigureBlocked
        /\ rpc # "run" )

----------------------------------------------------------------------------
\* the number a digit character stands for
DigitValue(c) == CHOOSE d \in 0..9 : Digit(d) = c

\* the number in the name of an image file of the shim: <dir>/mpl_NNNN.png, <dir>/cv2_NNNN.png
RECURSIVE NumberOf(_)
NumberOf(digits) ==
    IF digits = <<>> THEN 0
    ELSE 10 * NumberOf(SubSeq(digits, 1, Len(digits) - 1)) + DigitValue(digits[Len(digits)])

ImageNumber(path) == NumberOf(SubSeq(path, Len(ScratchDir) + 3, Len(path) - 1))

\* the paths of the image markers of a capture, in the order of emission
MarkerPaths(capture) ==
    LET ls == ImageLines(capture)
    IN [i \in 1..Len(ls) |-> Split(ls[i], ImageSep)[2]]

\* the image files of the shim that are in the scratch images directory
ShimFiles == {p \in fs : StartsWith(p, ScratchDir \o <<"/">>) /\ p[Len(p)] = ".png"}

\* C23: the numbers in the image markers the child has emitted are strictly increasing in
\* the order of emission, whichever of the two hooks saved the image, and no two image
\* files in the scratch images directory have the same number
C23_SharedCounter ==
    LET ps == MarkerPaths(written)
    IN /\ \A i, j \in 1..Len(ps) : i < j => ImageNumber(ps[i]) < ImageNumber(ps[j])
       /\ \A p, q \in ShimFiles : ImageNumber(p) = ImageNumber(q) => p = q

\* the child has emitted a marker of the plotting hook, then one of the vision hook,
\* then again one of the plotting hook
C23_Witness ==
    LET ps == MarkerPaths(written)
    IN \E i, j, k \in 1..Len(ps) :
          /\ i < j /\ j < k
          /\ ps[i][Len(ScratchDir) + 2] = "mpl_"
          /\ ps[j][Len(ScratchDir) + 2] = "cv2_"
          /\ ps[k][Len(ScratchDir) + 2] = "mpl_"
          /\ ps[j] \in fs

----------------------------------------------------------------------------
\* the line holds a markdown sentinel
IsMdLine(line) == Contains(line, MD_START_MARKER) \/ Contains(line, MD_END_MARKER)

\* the parser state in which line n of the capture is read: IN_MARKDOWN when the last
\* markdown marker line before it is a start line, NORMAL otherwise
StateAt(lines, n) ==
    LET ms == {i \in 1..(n - 1) : IsMdLine(lines[i])}
    IN IF ms = {} THEN "NORMAL"
       ELSE LET m == CHOOSE i \in ms : \A k \in ms : k <= i
            IN IF Contains(lines[m], MD_START_MARKER) THEN "IN_MARKDOWN" ELSE "NORMAL"

\* the kind of the item that holds the lines accumulated in the given state
KindOf(state) == IF state = "IN_MARKDOWN" THEN "markdown" ELSE "text"

\* C24: every plain line of the capture is in an item whose kind is that of the parser
\* state in which the line was read (text for NORMAL, markdown for IN_MARKDOWN), also
\* when a start marker comes while IN_MARKDOWN or an end marker while NORMAL, and no
\* item holds a markdown marker line
C24_KindByState ==
    (pc = "parsed" /\ parsed.exc = "none") =>
        LET lines == SplitLines(full_output)
        IN /\ \A n \in 1..Len(lines) :
                 lines[n] = <<Letter(n)>> =>
                     \E i \in 1..Len(parsed.items) :
                         /\ parsed.items[i].kind = KindOf(StateAt(lines, n))
                         /\ \E k \in 1..Len(parsed.items[i].content) :
                                parsed.items[i].content[k] = Letter(n)
           /\ \A i \in 1..Len(parsed.items) :
                 /\ ~Contains(parsed.items[i].content, MD_START_MARKER)
                 /\ ~Contains(parsed.items[i].content, MD_END_MARKER)

----------------------------------------------------------------------------
\* line n of the capture ends a block: a markdown marker line, or a line with the image
\* sentinel read in NORMAL
IsFlushLine(lines, n) ==
    \/ IsMdLine(lines[n])
    \/ Contains(lines[n], IMAGE_MARKER_PREFIX) /\ StateAt(lines, n) = "NORMAL"

\* the lines of the capture after the last line that ends a block
Remaining(lines) ==
    LET fl == {n \in 1..Len(lines) : IsFlushLine(lines, n)}
        last == IF fl = {} THEN 0 ELSE CHOOSE n \in fl : \A k \in fl : k <= n
    IN SubSeq(lines, last + 1, Len(lines))

\* C25: when lines are left in the accumulator at the end of the capture, the last item
\* returned is made of exactly those lines, a markdown item if the capture ends in
\* IN_MARKDOWN and a text item if it ends in NORMAL
C25_FinalFlush ==
    (pc = "parsed" /\ parsed.exc = "none") =>
        LET lines == SplitLines(full_output)
        IN Remaining(lines) # <<>> =>
              /\ parsed.items # <<>>
              /\ parsed.items[Len(parsed.items)] =
                     OutputItem(KindOf(StateAt(lines, Len(lines) + 1)),
                                JoinLines(Remaining(lines)))

\* a capture that ends inside a markdown block with two lines accumulated
C25_Witness ==
    /\ pc = "parsed"
    /\ parsed.exc = "none"
    /\ Len(SplitLines(full_output)) = 4
    /\ StateAt(SplitLines(full_output), 5) = "IN_MARKDOWN"
    /\ Len(Remaining(SplitLines(full_output))) = 2
    /\ parsed.items[Len(parsed.items)].kind = "markdown"

----------------------------------------------------------------------------
\* line n is a line with the image sentinel that is read in the given parser state
IsImageLineIn(lines, n, state) ==
    /\ Contains(lines[n], IMAGE_MARKER_PREFIX)
    /\ ~IsMdLine(lines[n])
    /\ StateAt(lines, n) = state

\* line n is accumulated as content of a markdown block
IsMdContent(lines, n) ==
    n \in 1..Len(lines) /\ ~IsMdLine(lines[n]) /\ StateAt(lines, n) = "IN_MARKDOWN"

\* some item that is not an image holds s
HeldByBlock(items, s) ==
    \E i \in 1..Len(items) : ~IsImage(items[i]) /\ Contains(items[i].content, s)

\* C26: there are as many image items as lines with the image sentinel read in NORMAL;
\* a line with the image sentinel read in IN_MARKDOWN gives no image item and does not
\* split its block: it is in one item together with the content lines next to it
C26_ImageOnlyInNormal ==
    (pc = "parsed" /\ parsed.exc = "none") =>
        LET lines == SplitLines(full_output)
        IN /\ Len(Images(parsed.items)) =
                 Cardinality({n \in 1..Len(lines) : IsImageLineIn(lines, n, "NORMAL")})
           /\ \A n \in 1..Len(lines) :
                 IsImageLineIn(lines, n, "IN_MARKDOWN") =>
                     /\ HeldByBlock(parsed.items, lines[n])
                     /\ IsMdContent(lines, n - 1) =>
                            HeldByBlock(parsed.items, lines[n - 1] \o <<NL>> \o lines[n])
                     /\ IsMdContent(lines, n + 1) =>
                            HeldByBlock(parsed.items, lines[n] \o <<NL>> \o lines[n + 1])

\* start line, a, an image marker line, end line: one markdown item that holds the
\* marker line as content
C26_Witness ==
    /\ pc = "parsed"
    /\ SplitLines(full_output) = << MD_START_MARKER, <<Letter(2)>>,
                                    CaptureLine("image", 3), MD_END_MARKER >>
    /\ parsed.items = << OutputItem("markdown",
                             <<Letter(2), NL>> \o CaptureLine("image", 3)) >>

----------------------------------------------------------------------------
\* what stands before the image sentinel on a line that holds it
BeforeSentinel(line) == Split(line, ImageSep)[1]

\* line n is an image marker line read in NORMAL with text before the sentinel
HasLineStart(lines, n) ==
    /\ IsImageLineIn(lines, n, "NORMAL")
    /\ Strip(BeforeSentinel(lines[n])) # <<>>

\* the contents expected of the text and markdown items, in order: of every maximal
\* run of lines with no marker line between them, the lines joined with a line break;
\* with lineStart, the text before the sentinel of the image marker line that ends
\* the run counts as the last line of the run. acc is the run read so far
RECURSIVE RunContents(_, _, _, _)
RunContents(lines, n, acc, lineStart) ==
    IF n > Len(lines)
    THEN IF acc = <<>> THEN <<>> ELSE <<JoinLines(acc)>>
    ELSE IF IsFlushLine(lines, n)
    THEN LET run == IF lineStart /\ HasLineStart(lines, n)
                    THEN Append(acc, BeforeSentinel(lines[n])) ELSE acc
         IN (IF run = <<>> THEN <<>> ELSE <<JoinLines(run)>>)
                \o RunContents(lines, n + 1, <<>>, lineStart)
    ELSE RunContents(lines, n + 1, Append(acc, lines[n]), lineStart)

\* the contents of the items that are not images, in order
BlockContents(items) ==
    LET NotImage(item) == ~IsImage(item)
        bs == SelectSeq(items, NotImage)
    IN [i \in 1..Len(bs) |-> bs[i].content]

\* no line of the capture is a marker line
NoMarkerLine(lines) == \A n \in 1..Len(lines) : ~IsFlushLine(lines, n)

\* C27: every maximal run of capture lines with no marker line between them is exactly
\* one item, whose content is those lines joined with a line break, and a capture with no
\* marker line gives at most one item, of kind text
C27_OneItemPerRun ==
    (pc = "parsed" /\ parsed.exc = "none") =>
        LET lines == SplitLines(full_output)
        IN /\ BlockContents(parsed.items) = RunContents(lines, 1, <<>>, FALSE)
           /\ NoMarkerLine(lines) =>
                  /\ Len(parsed.items) <= 1
                  /\ \A i \in 1..Len(parsed.items) : parsed.items[i].kind = "text"

\* C27, amended: as C27_OneItemPerRun, but the non-blank text that stands before the
\* sentinel on the image marker line ending a run is one more line of that run's item
C27_OneItemPerRunAndLineStart ==
    (pc = "parsed" /\ parsed.exc = "none") =>
        LET lines == SplitLines(full_output)
        IN /\ BlockContents(parsed.items) = RunContents(lines, 1, <<>>, TRUE)
           /\ NoMarkerLine(lines) =>
                  /\ Len(parsed.items) <= 1
                  /\ \A i \in 1..Len(parsed.items) : parsed.items[i].kind = "text"

\* two plain lines, then an image marker line with text before the sentinel: one text
\* item of three lines, then the image
C27_Witness ==
    /\ pc = "parsed"
    /\ SplitLines(full_output) = << <<Letter(1)>>, <<Letter(2)>>,
                                    CaptureLine("text_image", 3) >>
    /\ Len(parsed.items) = 2
    /\ parsed.items[1] = OutputItem("text", <<Letter(1), NL, Letter(2), NL, "x", " ">>)
    /\ IsImage(parsed.items[2])

----------------------------------------------------------------------------
\* s is a prefix of one of the three sentinels
IsSentinelPrefix(s) == \E m \in markers : StartsWith(m, s)

\* C28: when the reader reads a character outside the markdown suppression, it writes
\* nothing if the pending buffer with that character is a prefix of a sentinel, and it
\* writes the whole buffer and empties it if the buffer with that character is no such
\* prefix and holds no sentinel
C28_HoldThenFlush ==
    [][(Len(out_queue') = Len(out_queue) + 1 /\ ~hiding_markdown) =>
          LET b == Append(buffer, out_queue'[Len(out_queue')])
          IN /\ IsSentinelPrefix(b) => terminal' = terminal
             /\ (IsSentinelPrefix(b) /\ NoSentinel(b)) => buffer' = b
             /\ (~IsSentinelPrefix(b) /\ NoSentinel(b)) =>
                    /\ terminal' = terminal \o b
                    /\ buffer' = <<>>]_vars

\* the common start of the sentinels was held, and the next character, which ended
\* the ambiguity, put all of it on the terminal at once while a new prefix is held
C28_Witness ==
    /\ out_queue = CommonPrefix \o <<"a", "_">>
    /\ terminal = CommonPrefix \o <<"a">>
    /\ buffer = <<"_">>

----------------------------------------------------------------------------
\* lines[i..] is protocol traffic only: image marker lines outside markdown blocks,
\* and complete markdown blocks (start line, content lines, end line)
RECURSIVE ProtocolLines(_, _, _)
ProtocolLines(lines, i, inBlock) ==
    IF i > Len(lines) THEN ~inBlock
    ELSE IF inBlock
    THEN \/ lines[i] = MD_END_MARKER /\ ProtocolLines(lines, i + 1, FALSE)
         \/ NoSentinel(lines[i]) /\ ProtocolLines(lines, i + 1, TRUE)
    ELSE \/ lines[i] = MD_START_MARKER /\ ProtocolLines(lines, i + 1, TRUE)
         \/ /\ StartsWith(lines[i], ImageSep)
            /\ Len(lines[i]) > Len(ImageSep)
            /\ ProtocolLines(lines, i + 1, FALSE)

\* the stream is protocol traffic only, every line ended by a line break
ProtocolOnly(s) ==
    /\ s # <<>>
    /\ s[Len(s)] = NL
    /\ ProtocolLines(SplitLines(s), 1, FALSE)

\* C29: when all the child has written is protocol traffic (image marker lines and
\* complete markdown blocks), the reader has written nothing to the terminal
C29_ProtocolSilent ==
    ProtocolOnly(written) => terminal = <<>>

----------------------------------------------------------------------------
\* the stages of _execute_script_interactive before its return statement
InteractiveStages == {"popen", "wait", "kill", "join", "drain", "parse", "copy", "cleanup"}

\* the reader thread has ended because it read the end of the stream
ReaderAtEOF == rpc = "done" /\ pipe = <<>>

\* process.wait has returned the exit status, or the child was killed
ChildOver == returncode # None \/ child = "killed"

\* the step removes a file of the scratch directory
ScratchRemoved ==
    \E p \in fs : StartsWith(p, ScratchDir \o <<"/">>) /\ p \notin fs'

\* the step adds a file to the persistent images directory of the run
PersistentAdded ==
    \E p \in fs' : StartsWith(p, RunPersistDir \o <<"/">>) /\ p \notin fs

\* C30: the capture is drained and parsed only after the reader thread has ended on the
\* end of the stream and the wait has returned or the child was killed; the images are
\* copied only after the parse; the scratch directory is removed only after the copy, in
\* the step that builds the result; and no result exists before that last step
C30_StepOrder ==
    [][/\ (pc \in {"drain", "parse"} /\ pc' # pc) => (ReaderAtEOF /\ ChildOver)
       /\ (parsed = None /\ parsed' # None) => (pc = "parse" /\ out_queue = <<>>)
       /\ PersistentAdded => (pc = "copy" /\ parsed # None /\ parsed.exc = "none")
       /\ ScratchRemoved =>
              /\ pc = "cleanup"
              /\ result = None
              /\ result' # None
              /\ result'.output_items = Some(final_items)
       /\ pc \in InteractiveStages => result = None]_vars

----------------------------------------------------------------------------
\* C31: every execute() call on an existing script returns a result in the end: the main
\* thread waits forever neither for the child nor for the reader thread
C31_EventuallyReturns ==
    (pc = "execute") ~> (pc = "done")

----------------------------------------------------------------------------
\* C32: after the run of a notebook with one markdown cell, the items are exactly one
\* markdown item whose content is the cell's text: no part of the text is in a text
\* item or was taken for a marker
C32_RoundTrip ==
    (pc = "done" /\ cells # <<>> /\ result.output_items # None) =>
        result.output_items.some = << OutputItem("markdown", MdText) >>

\* C32, amended: the same for a cell whose text holds no markdown sentinel
C32_RoundTripNoSentinel ==
    (pc = "done" /\ cells # <<>> /\ result.output_items # None /\ ~IsMdLine(MdText)) =>
        result.output_items.some = << OutputItem("markdown", MdText) >>

\* a cell of two lines, the second of which holds the image sentinel, has come back as
\* one markdown item
C32_Witness ==
    /\ pc = "done"
    /\ cells # <<>>
    /\ MdText = <<"a", NL>> \o ImageSep \o <<"c">>
    /\ result.output_items = Some(<< OutputItem("markdown", MdText) >>)

----------------------------------------------------------------------------
\* C33: every image marker the child has printed names a file that was saved before,
\* whatever the order of show calls, imshow calls and the exit hook; a save that raised
\* left no file, and so has no marker
C33_SavedBeforeAnnounced ==
    LET ps == MarkerPaths(written)
    IN \A k \in 1..Len(ps) : ps[k] \in fs

\* the child has exited after a save that raised (a number without a file) and after
\* markers of both hooks
C33_Witness ==
    LET ps == MarkerPaths(written)
    IN /\ child = "exited"
       /\ Cardinality(ShimFiles) < counter
       /\ \E j, k \in 1..Len(ps) : ps[j] = MplPath(ImageNumber(ps[j]))
                                   /\ ps[k] = Cv2Path(ImageNumber(ps[k]))

----------------------------------------------------------------------------
\* t[i..] can be picked, in order, from s[j..]
RECURSIVE SubsequenceFrom(_, _, _, _)
SubsequenceFrom(t, s, i, j) ==
    IF i > Len(t) THEN TRUE
    ELSE IF j > Len(s) THEN FALSE
    ELSE IF t[i] = s[j] THEN SubsequenceFrom(t, s, i + 1, j + 1)
    ELSE SubsequenceFrom(t, s, i, j + 1)

\* t is s with some characters left out
IsSubsequence(t, s) == SubsequenceFrom(t, s, 1, 1)

\* the last k characters of s
LastChars(s, k) == SubSeq(s, Len(s) - k + 1, Len(s))

\* s ends with t
IsSuffix(t, s) == Len(t) <= Len(s) /\ LastChars(s, Len(t)) = t

\* C34: the terminal is at every moment the capture with some characters left out;
\* the pending buffer is the end of the capture, every write puts the last characters
\* of the capture on the terminal, no more of them than were pending, and empties the
\* buffer, so a character reaches the terminal after the capture, once, and in order
C34_TerminalSubsequence ==
    [][/\ IsSubsequence(terminal', Capture')
       /\ Len(out_queue') = Len(out_queue) + 1 => IsSuffix(buffer', out_queue')
       /\ terminal' # terminal =>
             /\ Len(out_queue') = Len(out_queue) + 1
             /\ buffer' = <<>>
             /\ \E k \in 1..(Len(buffer) + 1) :
                   terminal' = terminal \o LastChars(out_queue', k)]_vars

\* a markdown block was captured and left out of the terminal, the character after
\* it was captured and written
C34_Witness ==
    /\ out_queue = MD_START_MARKER \o MD_END_MARKER \o <<"a">>
    /\ terminal = <<"a">>
    /\ buffer = <<>>

----------------------------------------------------------------------------
\* the reader has read a line break: the capture ends at a line boundary
ReadsLineBreak ==
    /\ Len(out_queue') = Len(out_queue) + 1
    /\ out_queue'[Len(out_queue')] = NL

\* the parser after the first n lines
ParserAfter(lines, n) == ParseLoop(ParseStart, SubSeq(lines, 1, n), 1, ScratchDir)

\* the parser makes an image item of line n
ParserMakesImage(lines, n) ==
    LET before == ParserAfter(lines, n - 1)
        after == ParserAfter(lines, n)
    IN /\ after.exc = "none"
       /\ Len(after.items) > Len(before.items)
       /\ IsImage(after.items[Len(after.items)])

\* C35: whenever the reader reads a line break, it is in the markdown suppression
\* exactly if the parser is IN_MARKDOWN after the lines captured so far, and it has
\* withheld the line as an image marker line exactly if the parser makes an image item
\* of that line
C35_ReaderParserAgree ==
    [][ReadsLineBreak =>
          LET lines == SplitLines(out_queue')
              n == Len(lines)
          IN /\ hiding_markdown' <=> (ParserAfter(lines, n).state = "IN_MARKDOWN")
             /\ (~hiding_markdown /\ Contains(buffer, IMAGE_MARKER_PREFIX))
                    <=> ParserMakesImage(lines, n)]_vars

----------------------------------------------------------------------------
\* C36: when main() ends after an execute() whose result is not successful, the value
\* it returns is an integer other than 0
C36_FailureExitsNonZero ==
    (pc = "exit" /\ caller = "main" /\ result # None /\ ~result.success) =>
        (IsPyInt(mainrc) /\ mainrc # PyInt(0))

----------------------------------------------------------------------------
\* the length of the longest of the three sentinels
LongestSentinel == CHOOSE n \in {Len(m) : m \in markers} : \A m \in markers : Len(m) <= n

\* C37: after every character the reader reads outside the markdown suppression the
\* buffer is empty, a prefix of a sentinel, or holds the image sentinel and no line
\* break; a buffer without the image sentinel is no longer than the longest sentinel
C37_BufferShape ==
    [][(Len(out_queue') = Len(out_queue) + 1 /\ ~hiding_markdown) =>
          /\ \/ buffer' = <<>>
             \/ IsSentinelPrefix(buffer')
             \/ Contains(buffer', IMAGE_MARKER_PREFIX) /\ ~Contains(buffer', <<NL>>)
          /\ ~Contains(buffer', IMAGE_MARKER_PREFIX) => Len(buffer') <= LongestSentinel]_vars

\* the reader is at the end of an image marker line, before its line break: the buffer
\* holds the text before the sentinel, the sentinel and the path, more than a sentinel
\* is long
C37_Witness ==
    /\ ~hiding_markdown
    /\ buffer \o <<NL>> = ImageMarkerLine(MplPath(1))
    /\ buffer = out_queue
    /\ Len(buffer) > LongestSentinel

====
